---------------------------- MODULE Spec2Model ----------------------------
(* Scrape worker of scripts/worker.py driving scripts/refresh_sample.py.   *)
(* One worker process: worker_loop polls the queue, process_task runs one  *)
(* claimed task through open_cdp_session and execute_scrape_job, and       *)
(* reports to the queue.  Every awaited call is one step; the outcome of   *)
(* the call (value, failure) is chosen by the environment.                 *)
EXTENDS Integers, Sequences, FiniteSets, TLC

(* ------------------------------ bounds --------------------------------- *)
\* largest `limit` a claimed task carries
MaxLimit == 3
\* largest number of records one extract() returns
MaxPerPage == 2
\* largest number of times goToNextPage() answers true within one pass
MaxAdvance == 2
\* largest number of candidates resumes:search returns
MaxHits == 1

(* ------------------------- program constants --------------------------- *)
\* config.get("maxPages", 10)
DefaultMaxPages == 10
\* last_error[:1000]
LastErrorCap == 1000
\* len("Task was cancelled by user")
CancelMsgLen == 26
\* asyncio.sleep(5): the poll interval and the backoff
PollInterval == 5
Backoff == 5

\* a config field, or an extract() answer, that is missing or of the wrong type
Absent == -1
\* in a heartbeat payload: no lastError key
NoError == -1

LimitVals == 0..MaxLimit
MaxPagesVals == {1, 2, 3}
\* lengths of str(e) of the failures of a queue call (httpx timeouts have an
\* empty text) and of a CDPError (fixed, non-empty texts)
MsgLens == {0, 1001}
CDPMsgLens == {40}

Min(a, b) == IF a <= b THEN a ELSE b
Max(a, b) == IF a >= b THEN a ELSE b

VARIABLES
  pc,         \* the await the worker is at
  task,       \* the task claimed in this iteration (NoTask when none)
  args,       \* allow_empty and progress_callback as execute_scrape_job is
              \* called with
  socket,     \* TRUE while the websocket of open_cdp_session is connected
  pass,       \* 0 before scraping, 1 first execute_scrape_job, 2 the retry
  context_id, \* the context evaluations are sent to: as the session was
              \* opened with ("open"), or as resolved again ("retry")
  count,      \* len(all_resumes) of the running pass
  page,       \* current_page of the running pass
  advances,   \* goToNextPage() answers "true" in the running pass
  site,       \* caller of on_progress: "init" (line 215) or "scrape"
  result,     \* status of the last updateProgress response
  exc,        \* the exception being handled
  first,      \* the first exception raised inside process_task
  stats,      \* submit_stats
  analysis,   \* auto_analyze, keyword, auto_analyzed, analysis_task_id
  cancelled,  \* the queue has marked the claimed task cancelled
  call,       \* the call issued by the last step
  hist,       \* what has been issued for the claimed task so far
  epi,        \* the calls issued since the task's outcome was decided
  job,        \* what the running execute_scrape_job has done so far
  client,     \* the CDPClient: _next_id and the context registry
  rpc,        \* the CDPClient.call in progress
  wire,       \* the websocket: open or not, requests the browser still owes
  resolving,  \* the resolve_accessor_context in progress
  queue,      \* the tasks of the queue service: status and claimant
  fleet,      \* the worker processes polling one queue
  sent,       \* the last call any worker of the fleet made to the queue
  rec,        \* the scraped record derive_external_id is applied to
  formatted,  \* the record as formatted for submitResumes: externalId, hash
  twin        \* the key derived by a further call, and what it was called on

vars == <<pc, task, args, socket, pass, context_id, count, page, advances, site, result, exc,
          first, stats, analysis, cancelled, call, hist, epi, job,
          client, rpc, wire, resolving, queue, fleet, sent, rec,
          formatted, twin>>

\* the state of the worker, and the state of the CDP client under it
workervars == <<pc, task, args, socket, pass, context_id, count, page, advances,
                site, result, exc, first, stats, analysis, cancelled, call,
                hist, epi, job>>
cdp == <<client, rpc, wire, resolving>>
\* the fleet of workers on one queue
pool == <<queue, fleet, sent>>
\* the record being keyed
keys == <<rec, formatted, twin>>
\* what a step of the single worker leaves alone
outside == <<cdp, pool, keys>>

locals == <<pass, context_id, count, page, advances, site, result, stats,
            analysis, job>>

NoTask == [id |-> 0, limit |-> Absent, maxPages |-> Absent]
NoExc == [kind |-> "none", len |-> 0, by |-> "none"]
NoStats == [input |-> 0, submitted |-> 0, deduped |-> 0, identityDeduped |-> 0,
            identityMatched |-> 0, legacyExternalIdMatched |-> 0,
            inserted |-> 0, updated |-> 0, unchanged |-> 0]
NoAnalysis == [auto |-> FALSE, keyword |-> "", n |-> 0, id |-> FALSE]
NoHist == [init |-> "none", seen |-> FALSE, opened |-> 0, returned |-> 0,
           xs |-> 0, ns |-> 0, navs |-> 0, submits |-> 0, submitted |-> 0,
           done |-> 0, failed |-> 0, empty1 |-> FALSE, zero1 |-> FALSE,
           tries |-> 0, onavs |-> 0, afail |-> FALSE, resp |-> <<>>,
           prev |-> <<0, 0>>]
\* prev: the (count, page) of the last report before the running invocation
\* of execute_scrape_job, kept until on_progress has answered in it
\* one invocation of execute_scrape_job: the sizes of the pages extracted,
\* the (count, page) arguments of the progress callbacks, the goToNextPage
\* evaluations issued, and whether a wait for the page number timed out
NoJob == [recs |-> <<>>, cbs |-> <<>>, gos |-> 0, late |-> FALSE]

\* lines 227-228 of worker.py: process_task calls execute_scrape_job with
\* allow_empty=True and progress_callback=on_progress
WorkerArgs == [allow_empty |-> TRUE, progress_callback |-> TRUE]

\* the tasks claim can return (the config fields that steer the scrape)
Tasks == [id : {1}, limit : LimitVals \cup {Absent},
          maxPages : MaxPagesVals \cup {Absent}]

(* ----------------------------- the calls ------------------------------- *)
Ev(op, st, a, b, c, res) ==
  [op |-> op, st |-> st, a |-> a, b |-> b, c |-> c, res |-> res, ctx |-> ""]

NoCall == Ev("none", "", 0, 0, 0, "")

\* eval_json(client, expression, context_id) of refresh_sample.py: the
\* evaluation `ev` is sent to the context `ctx`
eval_json(ev, ctx) == [ev EXCEPT !.ctx = ctx]

\* resume_tasks:heartbeat with its payload: state, activeTaskId, lastError
HbEv(state, active, err, res) == Ev("heartbeat", state, active, err, 0, res)

\* the step issues `ev`; the epilogue is kept from its first entry on
issue(ev, start) ==
  /\ call' = ev
  /\ epi' = IF start \/ epi # <<>> THEN Append(epi, [ev EXCEPT !.res =
                 IF ev.op = "heartbeat" THEN "sent" ELSE ev.res])
            ELSE epi

(* ------------------------- scripts/worker.py --------------------------- *)
\* mutant: the failure of the heartbeat mutation is raised to the caller
heartbeat_raises(state, active, last_error, ok, next) ==
  /\ issue(HbEv(state,
                IF active THEN task.id ELSE 0,
                IF last_error > 0 THEN Min(last_error, LastErrorCap)
                                  ELSE NoError,
                IF ok THEN "ok" ELSE "fail"), FALSE)
  /\ pc' = IF ok THEN next ELSE "loop_error_hb"

\* heartbeat(client, state, active_task_id, last_error): the payload carries
\* activeTaskId and lastError only when they are truthy, lastError cut to
\* LastErrorCap characters; a failing mutation is logged and swallowed, so
\* the caller continues at `next` whether `ok` or not.
heartbeat(state, active, last_error, ok, next) ==
  /\ issue(HbEv(state,
                IF active THEN task.id ELSE 0,
                IF last_error > 0 THEN Min(last_error, LastErrorCap)
                                  ELSE NoError,
                IF ok THEN "ok" ELSE "fail"), FALSE)
  /\ pc' = next

\* locals of process_task and execute_scrape_job, dropped when the frame ends
reset_locals ==
  /\ pass' = 0 /\ count' = 0 /\ page' = 0 /\ advances' = 0
  /\ context_id' = "none"
  /\ site' = "init" /\ result' = "none"
  /\ stats' = NoStats /\ analysis' = NoAnalysis
  /\ job' = NoJob

\* mutant: the socket is left open when the scope ends
close_session_leaks == socket' = socket

\* the scope of `async with open_cdp_session(...)` ends: websockets.connect's
\* context manager closes the socket
close_session == socket' = FALSE

\* an exception leaves the try block of process_task (lines 213-382): the
\* session scope is left first, then the matching except clause runs
raise_in_task(kind, len, by) ==
  /\ exc' = [kind |-> kind, len |-> len, by |-> by]
  /\ first' = IF first = NoExc THEN exc' ELSE first
  /\ close_session
  /\ reset_locals
  /\ pc' = IF kind = "cancellation" THEN "pt_cancel_hb" ELSE "pt_fail_hb"

\* an exception reaches `except Exception` of worker_loop (line 418)
raise_in_loop(len, by) ==
  /\ exc' = [kind |-> "error", len |-> len, by |-> by]
  /\ pc' = "loop_error_hb"

\* line 401
worker_loop_start ==
  /\ pc = "start"
  /\ UNCHANGED outside
  /\ \E ok \in BOOLEAN : heartbeat("idle", FALSE, 0, ok, "loop_hb")
  /\ UNCHANGED <<task, args, socket, locals, exc, first, cancelled, hist>>

\* line 404
worker_loop_heartbeat ==
  /\ pc = "loop_hb"
  /\ UNCHANGED outside
  /\ \E ok \in BOOLEAN : heartbeat("idle", FALSE, 0, ok, "claim")
  /\ UNCHANGED <<task, args, socket, locals, exc, first, cancelled, hist>>

\* lines 406-410: resume_tasks:claim returns a task, null, or fails
worker_loop_claim ==
  /\ pc = "claim"
  /\ UNCHANGED outside
  /\ cancelled' = FALSE
  /\ first' = NoExc
  /\ hist' = NoHist
  /\ \/ \E t \in Tasks :
          /\ task' = t
          /\ pc' = "claimed_hb"
          /\ exc' = NoExc
          /\ call' = Ev("claim", "", 0, 0, 0, "task")
          /\ epi' = <<>>
     \/ /\ task' = NoTask
        /\ pc' = "poll_sleep"
        /\ exc' = NoExc
        /\ call' = Ev("claim", "", 0, 0, 0, "null")
        /\ epi' = <<call'>>
     \/ \E len \in MsgLens :
          /\ task' = task
          /\ raise_in_loop(len, "claim")
          /\ call' = Ev("claim", "", 0, 0, 0, "raise")
          /\ epi' = <<call'>>
  /\ UNCHANGED <<socket, locals, args>>

\* mutant: process_task is started but not awaited
worker_loop_claimed_detached ==
  /\ pc = "claimed_hb"
  /\ UNCHANGED outside
  /\ \E ok \in BOOLEAN : heartbeat("processing", TRUE, 0, ok, "loop_hb")
  /\ UNCHANGED <<task, args, socket, locals, exc, first, cancelled, hist>>

\* line 411
worker_loop_claimed ==
  /\ pc = "claimed_hb"
  /\ UNCHANGED outside
  /\ \E ok \in BOOLEAN : heartbeat("processing", TRUE, 0, ok, "pt_hb")
  /\ UNCHANGED <<task, args, socket, locals, exc, first, cancelled, hist>>

\* mutant: a null claim is handled as a failure of the iteration
worker_loop_poll_sleep_as_error ==
  /\ pc = "poll_sleep"
  /\ UNCHANGED outside
  /\ pc' = "loop_error_hb"
  /\ issue(Ev("sleep", "poll", PollInterval, 0, 0, "done"), FALSE)
  /\ UNCHANGED <<task, args, socket, locals, exc, first, cancelled, hist>>

\* line 414: asyncio.sleep(5), the poll interval
worker_loop_poll_sleep ==
  /\ pc = "poll_sleep"
  /\ UNCHANGED outside
  /\ pc' = "loop_hb"
  /\ issue(Ev("sleep", "poll", PollInterval, 0, 0, "done"), FALSE)
  /\ UNCHANGED <<task, args, socket, locals, exc, first, cancelled, hist>>

\* line 420
worker_loop_error ==
  /\ pc = "loop_error_hb"
  /\ UNCHANGED outside
  /\ \E ok \in BOOLEAN : heartbeat("error", FALSE, exc.len, ok, "backoff")
  /\ UNCHANGED <<task, args, socket, locals, exc, first, cancelled, hist>>

\* mutant: the loop is left after the error heartbeat
worker_loop_backoff_stops ==
  /\ pc = "backoff"
  /\ UNCHANGED outside
  /\ pc' = "stopped"
  /\ issue(Ev("sleep", "backoff", Backoff, 0, 0, "done"), FALSE)
  /\ UNCHANGED <<task, args, socket, locals, exc, first, cancelled, hist>>

\* mutant: after the backoff the loop goes on at claim, without its idle
\* heartbeat
worker_loop_backoff_skips_idle ==
  /\ pc = "backoff"
  /\ UNCHANGED outside
  /\ pc' = "claim"
  /\ issue(Ev("sleep", "backoff", Backoff, 0, 0, "done"), FALSE)
  /\ UNCHANGED <<task, args, socket, locals, exc, first, cancelled, hist>>

\* line 421: asyncio.sleep(5), the fixed backoff
worker_loop_backoff ==
  /\ pc = "backoff"
  /\ UNCHANGED outside
  /\ pc' = "loop_hb"
  /\ issue(Ev("sleep", "backoff", Backoff, 0, 0, "done"), FALSE)
  /\ UNCHANGED <<task, args, socket, locals, exc, first, cancelled, hist>>

\* line 183
process_task_heartbeat ==
  /\ pc = "pt_hb"
  /\ UNCHANGED outside
  /\ \E ok \in BOOLEAN : heartbeat("processing", TRUE, 0, ok, "pt_config")
  /\ UNCHANGED <<task, args, socket, locals, exc, first, cancelled, hist>>

\* mutant: the session is opened without the initial progress report
process_task_config_no_initial ==
  /\ pc = "pt_config"
  /\ UNCHANGED outside
  /\ IF task.limit = Absent
       THEN \E len \in MsgLens \ {0} :
              /\ raise_in_loop(len, "config")
              /\ first' = exc'
              /\ issue(Ev("config", "", 0, 0, 0, "raise"), TRUE)
              /\ UNCHANGED <<site, count, page>>
       ELSE /\ pc' = "open_targets"
            /\ site' = "init" /\ count' = 0 /\ page' = 0
            /\ issue(Ev("config", "", 0, 0, 0, "ok"), FALSE)
            /\ UNCHANGED <<exc, first>>
  /\ UNCHANGED <<task, args, socket, pass, context_id, advances, result, stats, analysis,
                 cancelled, hist, job>>

\* lines 185-197, before the try block: config["limit"] missing or not an
\* integer raises straight into worker_loop
process_task_config ==
  /\ pc = "pt_config"
  /\ UNCHANGED outside
  /\ IF task.limit = Absent
       THEN \E len \in MsgLens \ {0} :
              /\ raise_in_loop(len, "config")
              /\ first' = exc'
              /\ issue(Ev("config", "", 0, 0, 0, "raise"), TRUE)
              /\ UNCHANGED <<site, count, page>>
       ELSE /\ pc' = "op_update"
            /\ site' = "init" /\ count' = 0 /\ page' = 0
            /\ issue(Ev("config", "", 0, 0, 0, "ok"), FALSE)
            /\ UNCHANGED <<exc, first>>
  /\ UNCHANGED <<task, args, socket, pass, context_id, advances, result, stats, analysis,
                 cancelled, hist, job>>

limit == task.limit
max_pages == IF task.maxPages = Absent THEN DefaultMaxPages ELSE task.maxPages

\* mutant: the total reported is the limit, whatever has been collected
on_progress_update_total_is_limit ==
  /\ pc = "op_update"
  /\ UNCHANGED outside
  /\ LET ev(res) == Ev("updateProgress", IF page > 0 THEN "page" ELSE "init",
                       count, page, limit, res)
         res == IF cancelled THEN "cancelled" ELSE "ok"
     IN \/ /\ result' = res
           /\ issue(ev(res), cancelled)
           /\ pc' = "op_hb"
           /\ hist' = [hist EXCEPT !.init = IF count = 0 /\ page = 0 THEN res ELSE @,
                                   !.seen = cancelled]
           /\ job' = IF site = "scrape"
                       THEN [job EXCEPT !.cbs = Append(@, <<count, page>>)]
                       ELSE job
           /\ UNCHANGED <<socket, pass, context_id, count, page, advances, site, exc,
                          first, stats, analysis>>
        \/ \E len \in MsgLens :
             /\ issue(ev("raise"), TRUE)
             /\ raise_in_task("error", len, "updateProgress")
             /\ hist' = [hist EXCEPT !.init = IF count = 0 /\ page = 0 THEN "raise" ELSE @,
                                     !.prev = <<0, 0>>]
  /\ UNCHANGED <<task, args, cancelled>>

\* lines 199-208, first half of on_progress(count, page): the updateProgress
\* mutation; the queue answers "cancelled" once it has marked the task so
on_progress_update ==
  /\ pc = "op_update"
  /\ UNCHANGED outside
  /\ LET ev(res) == Ev("updateProgress", IF page > 0 THEN "page" ELSE "init",
                       count, page, Max(limit, count), res)
         res == IF cancelled THEN "cancelled" ELSE "ok"
     IN \/ /\ result' = res
           /\ issue(ev(res), cancelled)
           /\ pc' = "op_hb"
           /\ hist' = [hist EXCEPT !.init = IF count = 0 /\ page = 0 THEN res ELSE @,
                                   !.seen = cancelled]
           /\ job' = IF site = "scrape"
                       THEN [job EXCEPT !.cbs = Append(@, <<count, page>>)]
                       ELSE job
           /\ UNCHANGED <<socket, pass, context_id, count, page, advances, site, exc,
                          first, stats, analysis>>
        \/ \E len \in MsgLens :
             /\ issue(ev("raise"), TRUE)
             /\ raise_in_task("error", len, "updateProgress")
             /\ hist' = [hist EXCEPT !.init = IF count = 0 /\ page = 0 THEN "raise" ELSE @,
                                     !.prev = <<0, 0>>]
  /\ UNCHANGED <<task, args, cancelled>>

\* mutant: the records are submitted without the `if resumes` test
after_pass_always_submits(p, n) ==
  IF n = 0 /\ p = 1 THEN "pt_first_status" ELSE "pt_submit"

\* mutant: an empty first pass is accepted without the retry
after_pass_no_retry(p, n) ==
  IF n > 0 THEN "pt_submit" ELSE "pt_final_status"

\* where the code continues once execute_scrape_job has returned `n` records
\* in pass `p` (lines 231, 263, 295)
after_pass(p, n) ==
  IF n > 0 THEN "pt_submit"
  ELSE IF p = 1 THEN "pt_first_status" ELSE "pt_final_status"

\* mutant: the loop does not stop at max_pages
after_progress_no_page_check ==
  IF count >= limit THEN after_pass(pass, count) ELSE "sj_next"

\* mutant: the loop does not stop at the limit
after_progress_no_limit_check ==
  IF page >= max_pages THEN after_pass(pass, count) ELSE "sj_next"

\* mutant: the loop is left at the limit only
stop_checks_limit_only(total) ==
  IF total >= limit THEN after_pass(pass, total) ELSE "sj_next"

\* lines 350-357 of refresh_sample.py: the stop checks, with `total` records
\* collected: the loop is left at the limit or at max_pages
stop_checks(total) ==
  IF total >= limit \/ page >= max_pages THEN after_pass(pass, total)
  ELSE "sj_next"

\* the stop checks when they follow the callback
after_progress == stop_checks(count)

\* execute_scrape_job returns `total` records (line 393); the history notes
\* whether the first pass came back with no record
pass_returned(h, total) ==
  [h EXCEPT !.returned = @ + 1,
            !.zero1 = IF pass = 1 THEN total = 0 ELSE @]

pass_returns(h) == pass_returned(h, count)

\* on_progress has answered: the report before the running pass has been
\* replaced by one of this pass
on_progress_returns(h) == [h EXCEPT !.prev = <<0, 0>>]

\* mutant: the status of the response is not looked at
on_progress_heartbeat_unchecked ==
  /\ pc = "op_hb"
  /\ UNCHANGED outside
  /\ \E ok \in BOOLEAN :
       heartbeat("processing", TRUE, 0, ok,
                 IF site = "init" THEN "open_targets" ELSE after_progress)
  /\ hist' = on_progress_returns(IF site = "scrape" /\ after_progress # "sj_next"
               THEN pass_returns(hist) ELSE hist)
  /\ UNCHANGED <<socket, locals, exc, first>>
  /\ UNCHANGED <<task, args, cancelled>>

\* mutant: execute_scrape_job catches what the callback raises and returns
\* the records it has
on_progress_heartbeat_swallowed ==
  /\ pc = "op_hb"
  /\ UNCHANGED outside
  /\ \E ok \in BOOLEAN :
       heartbeat("processing", TRUE, 0, ok,
                 IF site = "init"
                   THEN IF result = "cancelled" THEN "pt_cancel_hb"
                                                ELSE "open_targets"
                 ELSE IF result = "cancelled" THEN after_pass(pass, count)
                 ELSE after_progress)
  /\ hist' = on_progress_returns(IF site = "scrape"
                  /\ (result = "cancelled" \/ after_progress # "sj_next")
               THEN pass_returns(hist) ELSE hist)
  /\ exc' = IF site = "init" /\ result = "cancelled"
              THEN [kind |-> "cancellation", len |-> CancelMsgLen,
                    by |-> "on_progress"]
              ELSE exc
  /\ first' = IF first = NoExc THEN exc' ELSE first
  /\ UNCHANGED <<socket, locals>>
  /\ UNCHANGED <<task, args, cancelled>>

\* mutant: the status of the response is looked at by the initial report
\* only, not by the reports of the scrape
on_progress_heartbeat_initial_only ==
  /\ pc = "op_hb"
  /\ UNCHANGED outside
  /\ IF result = "cancelled" /\ site = "init"
       THEN /\ \E ok \in BOOLEAN :
                 heartbeat("processing", TRUE, 0, ok, "pt_cancel_hb")
            /\ exc' = [kind |-> "cancellation", len |-> CancelMsgLen,
                       by |-> "on_progress"]
            /\ first' = IF first = NoExc THEN exc' ELSE first
            /\ close_session
            /\ reset_locals
            /\ hist' = on_progress_returns(hist)
       ELSE /\ \E ok \in BOOLEAN :
                 heartbeat("processing", TRUE, 0, ok,
                           IF site = "init" THEN "open_targets"
                                            ELSE after_progress)
            /\ hist' = on_progress_returns(IF site = "scrape" /\ after_progress # "sj_next"
                         THEN pass_returns(hist) ELSE hist)
            /\ UNCHANGED <<socket, locals, exc, first>>
  /\ UNCHANGED <<task, args, cancelled>>

\* lines 209-211, second half of on_progress: the processing heartbeat, then
\* CancellationError when the response said "cancelled"
on_progress_heartbeat ==
  /\ pc = "op_hb"
  /\ UNCHANGED outside
  /\ IF result = "cancelled"
       THEN /\ \E ok \in BOOLEAN :
                 heartbeat("processing", TRUE, 0, ok, "pt_cancel_hb")
            /\ exc' = [kind |-> "cancellation", len |-> CancelMsgLen,
                       by |-> "on_progress"]
            /\ first' = IF first = NoExc THEN exc' ELSE first
            /\ close_session
            /\ reset_locals
            /\ hist' = on_progress_returns(hist)
       ELSE /\ \E ok \in BOOLEAN :
                 heartbeat("processing", TRUE, 0, ok,
                           IF site = "init" THEN "open_targets"
                                            ELSE after_progress)
            /\ hist' = on_progress_returns(IF site = "scrape" /\ after_progress # "sj_next"
                         THEN pass_returns(hist) ELSE hist)
            /\ UNCHANGED <<socket, locals, exc, first>>
  /\ UNCHANGED <<task, args, cancelled>>

(* ---------------------- scripts/refresh_sample.py ---------------------- *)
\* a browser-side step that issues `ev` and goes on at `next`
cdp_ok(ev, next) ==
  /\ issue(ev, FALSE)
  /\ pc' = next
  /\ UNCHANGED <<socket, exc, first>>

\* a browser-side step that fails with a CDPError
cdp_raise(ev) ==
  \E len \in CDPMsgLens :
    /\ issue(ev, TRUE)
    /\ raise_in_task("error", len, "cdp")

\* lines 409-443 of open_cdp_session with a search URL: an open job5156 tab
\* is preferred, else a new target is created, else the first open page is
\* used.  `pages`: what GET /json lists; `created`: what create_target gives.
select_target(pages, created) ==
  IF pages = "job5156" THEN "ws"
  ELSE IF created # "none" THEN created
  ELSE IF pages = "other" THEN "ws"
  ELSE "none"

\* lines 404-443: target discovery; CDPError when Chrome is unreachable,
\* no target is found or the target has no webSocketDebuggerUrl
open_cdp_session_targets ==
  /\ pc = "open_targets"
  /\ UNCHANGED outside
  /\ \/ \E pages \in {"job5156", "other", "none"}, created \in {"ws", "nows", "none"} :
          LET t == select_target(pages, created)
          IN IF t = "ws"
               THEN /\ cdp_ok(Ev("targets", pages, 0, 0, 0, t), "open_connect")
                    /\ UNCHANGED locals
               ELSE cdp_raise(Ev("targets", pages, 0, 0, 0, t))
     \/ cdp_raise(Ev("targets", "", 0, 0, 0, "unreachable"))
  /\ UNCHANGED <<task, args, cancelled, hist>>

\* line 447: websockets.connect
open_cdp_session_connect ==
  /\ pc = "open_connect"
  /\ UNCHANGED outside
  /\ \/ /\ socket' = TRUE
        /\ pc' = "open_enable"
        /\ issue(Ev("connect", "", 0, 0, 0, "ok"), FALSE)
        /\ hist' = [hist EXCEPT !.opened = @ + 1]
        /\ UNCHANGED <<locals, exc, first>>
     \/ \E len \in MsgLens :
          /\ issue(Ev("connect", "", 0, 0, 0, "raise"), TRUE)
          /\ raise_in_task("error", len, "connect")
          /\ UNCHANGED hist
  /\ UNCHANGED <<task, args, cancelled>>

\* lines 449-450: Page.enable and Runtime.enable
open_cdp_session_enable ==
  /\ pc = "open_enable"
  /\ UNCHANGED outside
  /\ \/ cdp_ok(Ev("enable", "", 0, 0, 0, "ok"), "open_resolve1") /\ UNCHANGED locals
     \/ cdp_raise(Ev("enable", "", 0, 0, 0, "raise"))
  /\ UNCHANGED <<task, args, cancelled, hist>>

\* mutant: the accessor is given up after the second miss
open_cdp_session_resolve_gives_up_early ==
  /\ pc \in {"open_resolve1", "open_resolve2", "open_resolve3"}
  /\ UNCHANGED outside
  /\ \/ cdp_ok(Ev("resolve", pc, 0, 0, 0, "found"), "open_status") /\ UNCHANGED locals
     \/ IF pc # "open_resolve1"
          THEN cdp_raise(Ev("resolve", pc, 0, 0, 0, "missing"))
          ELSE /\ cdp_ok(Ev("resolve", pc, 0, 0, 0, "missing"), "open_navigate")
               /\ UNCHANGED locals
     \/ cdp_raise(Ev("resolve", pc, 0, 0, 0, "raise"))
  /\ hist' = [hist EXCEPT !.tries = @ + 1]
  /\ UNCHANGED <<task, args, cancelled>>

\* lines 457-474: resolve_accessor_context, again after Page.navigate and
\* again after a further readiness wait; CDPError after the third miss.
\* An exception that resolve_accessor_context does not swallow (the socket
\* closing under it) leaves open_cdp_session at once.
open_cdp_session_resolve ==
  /\ pc \in {"open_resolve1", "open_resolve2", "open_resolve3"}
  /\ UNCHANGED outside
  /\ \/ cdp_ok(Ev("resolve", pc, 0, 0, 0, "found"), "open_status") /\ UNCHANGED locals
     \/ IF pc = "open_resolve3"
          THEN cdp_raise(Ev("resolve", pc, 0, 0, 0, "missing"))
          ELSE /\ cdp_ok(Ev("resolve", pc, 0, 0, 0, "missing"),
                         IF pc = "open_resolve1" THEN "open_navigate"
                                                 ELSE "open_resolve3")
               /\ UNCHANGED locals
     \/ cdp_raise(Ev("resolve", pc, 0, 0, 0, "raise"))
  /\ hist' = [hist EXCEPT !.tries = @ + 1]
  /\ UNCHANGED <<task, args, cancelled>>

\* lines 460-462: Page.navigate to the search URL and the readiness wait
open_cdp_session_navigate ==
  /\ pc = "open_navigate"
  /\ UNCHANGED outside
  /\ \/ cdp_ok(Ev("navigate", "open", 0, 0, 0, "ok"), "open_resolve2") /\ UNCHANGED locals
     \/ cdp_raise(Ev("navigate", "open", 0, 0, 0, "raise"))
  /\ hist' = [hist EXCEPT !.onavs = @ + 1]
  /\ UNCHANGED <<task, args, cancelled>>

\* lines 476-502: wait for the extension status (CDPError when it never
\* reports), then the readiness wait, whose answer is not looked at, then
\* the session is yielded (the counts of the opening end with it)
open_cdp_session_status ==
  /\ pc = "open_status"
  /\ UNCHANGED outside
  /\ \/ \E ready \in BOOLEAN :
          /\ cdp_ok(Ev("ready", "", 0, 0, 0, IF ready THEN "ready" ELSE "timeout"),
                    "pt_url")
          /\ hist' = [hist EXCEPT !.tries = 0, !.onavs = 0]
          /\ context_id' = "open"
          /\ UNCHANGED <<pass, count, page, advances, site, result, stats,
                         analysis, job>>
     \/ cdp_raise(Ev("status", "", 0, 0, 0, "missing")) /\ UNCHANGED hist
  /\ UNCHANGED <<task, args, cancelled>>

\* line 218 of worker.py: window.location.href; line 222 enters the first
\* execute_scrape_job
process_task_url ==
  /\ pc = "pt_url"
  /\ UNCHANGED outside
  /\ \/ /\ cdp_ok(eval_json(Ev("eval", "url", 0, 0, 0, "ok"), context_id), "sj_wait")
        /\ pass' = 1
        /\ UNCHANGED <<context_id, count, page, advances, site, result, stats, analysis,
                       job>>
     \/ cdp_raise(eval_json(Ev("eval", "url", 0, 0, 0, "raise"), context_id))
  /\ UNCHANGED <<task, args, cancelled, hist>>

\* mutant: the page counter goes on from where the previous pass stopped
execute_scrape_job_start_keeps_page ==
  /\ pc = "sj_wait"
  /\ UNCHANGED outside
  /\ \/ /\ cdp_ok(eval_json(Ev("eval", "polyfill", 0, 0, 0, "ok"), context_id), "sj_extract")
        /\ count' = 0 /\ page' = page + 1 /\ advances' = 0
        /\ job' = NoJob
        /\ hist' = [hist EXCEPT !.prev = <<count, page>>]
        /\ UNCHANGED <<pass, context_id, site, result, stats, analysis>>
     \/ /\ cdp_raise(eval_json(Ev("eval", "polyfill", 0, 0, 0, "raise"), context_id))
        /\ UNCHANGED hist
  /\ UNCHANGED <<task, args, cancelled>>

\* lines 290-314 of execute_scrape_job: wait_for_results, the goToNextPage
\* polyfill, all_resumes = [], current_page = 1
execute_scrape_job_start ==
  /\ pc = "sj_wait"
  /\ UNCHANGED outside
  /\ \/ /\ cdp_ok(eval_json(Ev("eval", "polyfill", 0, 0, 0, "ok"), context_id), "sj_extract")
        /\ count' = 0 /\ page' = 1 /\ advances' = 0
        /\ job' = NoJob
        /\ hist' = [hist EXCEPT !.prev = <<count, page>>]
        /\ UNCHANGED <<pass, context_id, site, result, stats, analysis>>
     \/ /\ cdp_raise(eval_json(Ev("eval", "polyfill", 0, 0, 0, "raise"), context_id))
        /\ UNCHANGED hist
  /\ UNCHANGED <<task, args, cancelled>>

\* mutant: what has been collected is not looked at
extract_raises_whatever_collected(n, allow_empty, collected) ==
  (n = Absent \/ n = 0) /\ ~allow_empty

\* lines 333-341: whether an extract() answer of `n` records (n = Absent:
\* not a list) raises CDPError, and the page it contributes otherwise
extract_raises(n, allow_empty, collected) ==
  (n = Absent \/ n = 0) /\ ~allow_empty /\ collected = 0

page_resumes(n) == IF n = Absent THEN 0 ELSE n

\* one more evaluation of `op` ("xs": extract, "ns": goToNextPage) since the
\* queue marked the task cancelled
since_cancel(op) ==
  IF ~cancelled THEN hist
  ELSE IF op = "xs" THEN [hist EXCEPT !.xs = @ + 1]
  ELSE [hist EXCEPT !.ns = @ + 1]

\* the history after extract() answered with `n` records: whether the first
\* page of the first pass was empty
extracted(n) ==
  [since_cancel("xs") EXCEPT !.empty1 =
     IF pass = 1 /\ page = 1 THEN page_resumes(n) = 0 ELSE @]

\* mutant: the progress callback is not invoked
execute_scrape_job_extract_no_callback ==
  /\ pc = "sj_extract"
  /\ UNCHANGED outside
  /\ \/ \E n \in (0..MaxPerPage) \cup {Absent} :
          /\ cdp_ok(eval_json(Ev("extract", "", n, page, count + page_resumes(n), "ok"), context_id),
                    IF count + page_resumes(n) >= limit \/ page >= max_pages
                      THEN after_pass(pass, count + page_resumes(n))
                      ELSE "sj_next")
          /\ count' = count + page_resumes(n)
          /\ site' = "scrape"
          /\ hist' = extracted(n)
          /\ job' = [job EXCEPT !.recs = Append(@, page_resumes(n))]
          /\ UNCHANGED <<pass, context_id, page, advances, result, stats, analysis>>
     \/ /\ cdp_raise(eval_json(Ev("extract", "", 0, page, count, "raise"), context_id))
        /\ hist' = since_cancel("xs")
  /\ UNCHANGED <<task, args, cancelled>>

\* lines 316-357: wait_for_results, extract(), the two raises of a call
\* without allow_empty, all_resumes.extend, then the progress callback when
\* there is one, else the stop checks at once
execute_scrape_job_extract ==
  /\ pc = "sj_extract"
  /\ UNCHANGED outside
  /\ \/ \E n \in (0..MaxPerPage) \cup {Absent} :
          IF extract_raises(n, args.allow_empty, count)
            THEN /\ cdp_raise(eval_json(Ev("extract", "", n, page, count,
                                          "raise"), context_id))
                 /\ hist' = since_cancel("xs")
            ELSE LET total == count + page_resumes(n)
                     next == IF args.progress_callback THEN "op_update"
                             ELSE stop_checks(total)
                 IN /\ cdp_ok(eval_json(Ev("extract", "", n, page, total,
                                          "ok"), context_id), next)
                    /\ count' = total
                    /\ site' = "scrape"
                    /\ hist' = IF next \in {"op_update", "sj_next"}
                                 THEN extracted(n)
                                 ELSE pass_returned(extracted(n), total)
                    /\ job' = [job EXCEPT !.recs = Append(@, page_resumes(n))]
                    /\ UNCHANGED <<pass, context_id, page, advances, result,
                                   stats, analysis>>
     \/ /\ cdp_raise(eval_json(Ev("extract", "", 0, page, count, "raise"),
                               context_id))
        /\ hist' = since_cancel("xs")
  /\ UNCHANGED <<task, args, cancelled>>

\* mutant: current_page is not advanced after goToNextPage()
execute_scrape_job_next_same_page ==
  /\ pc = "sj_next"
  /\ UNCHANGED outside
  /\ \/ \E waited \in {"advanced", "timeout"} :
          /\ advances < MaxAdvance
          /\ cdp_ok(eval_json(Ev("goToNextPage", waited, 0, page, 0, "true"), context_id), "sj_extract")
          /\ advances' = advances + 1
          /\ hist' = since_cancel("ns")
          /\ job' = [job EXCEPT !.gos = @ + 1,
                                !.late = @ \/ waited = "timeout"]
          /\ UNCHANGED <<pass, context_id, count, page, site, result, stats, analysis>>
     \/ /\ cdp_ok(eval_json(Ev("goToNextPage", "", 0, page, 0, "false"), context_id), after_pass(pass, count))
        /\ hist' = pass_returns(since_cancel("ns"))
        /\ job' = [job EXCEPT !.gos = @ + 1]
        /\ UNCHANGED <<pass, context_id, count, page, advances, site, result, stats,
                       analysis>>
     \/ /\ cdp_raise(eval_json(Ev("goToNextPage", "", 0, page, 0, "raise"), context_id))
        /\ hist' = since_cancel("ns")
  /\ UNCHANGED <<task, args, cancelled>>

\* mutant: the loop goes on to the next page whatever goToNextPage() said
execute_scrape_job_next_whatever_answer ==
  /\ pc = "sj_next"
  /\ UNCHANGED outside
  /\ \/ \E has_next \in {"true", "false"} :
          /\ advances < MaxAdvance
          /\ cdp_ok(eval_json(Ev("goToNextPage", "", 0, page, 0, has_next),
                              context_id), "sj_extract")
          /\ advances' = advances + 1
          /\ page' = page + 1
          /\ hist' = since_cancel("ns")
          /\ job' = [job EXCEPT !.gos = @ + 1]
          /\ UNCHANGED <<pass, context_id, count, site, result, stats,
                         analysis>>
     \/ /\ cdp_raise(eval_json(Ev("goToNextPage", "", 0, page, 0, "raise"),
                               context_id))
        /\ hist' = since_cancel("ns")
  /\ UNCHANGED <<task, args, cancelled>>

\* lines 359-391: goToNextPage(); on true, wait_for the page number to
\* advance.  wait_for swallows CDPError and returns a falsy value on
\* timeout, which the code does not look at: current_page advances either
\* way.
execute_scrape_job_next ==
  /\ pc = "sj_next"
  /\ UNCHANGED outside
  /\ \/ \E waited \in {"advanced", "timeout"} :
          /\ advances < MaxAdvance
          /\ cdp_ok(eval_json(Ev("goToNextPage", waited, 0, page, 0, "true"), context_id), "sj_extract")
          /\ advances' = advances + 1
          /\ page' = page + 1
          /\ hist' = since_cancel("ns")
          /\ job' = [job EXCEPT !.gos = @ + 1,
                                !.late = @ \/ waited = "timeout"]
          /\ UNCHANGED <<pass, context_id, count, site, result, stats, analysis>>
     \/ /\ cdp_ok(eval_json(Ev("goToNextPage", "", 0, page, 0, "false"), context_id), after_pass(pass, count))
        /\ hist' = pass_returns(since_cancel("ns"))
        /\ job' = [job EXCEPT !.gos = @ + 1]
        /\ UNCHANGED <<pass, context_id, count, page, advances, site, result, stats,
                       analysis>>
     \/ /\ cdp_raise(eval_json(Ev("goToNextPage", "", 0, page, 0, "raise"), context_id))
        /\ hist' = since_cancel("ns")
  /\ UNCHANGED <<task, args, cancelled>>

(* --------------------- process_task after the scrape ------------------- *)
\* lines 231-243: zero records in the first pass: read the extension status
process_task_first_status ==
  /\ pc = "pt_first_status"
  /\ UNCHANGED outside
  /\ \/ /\ cdp_ok(eval_json(Ev("eval", "status", 0, 0, 0, "ok"), context_id), "pt_navigate")
        /\ job' = NoJob
        /\ UNCHANGED <<pass, context_id, count, page, advances, site, result, stats,
                       analysis>>
     \/ cdp_raise(eval_json(Ev("eval", "status", 0, 0, 0, "raise"), context_id))
  /\ UNCHANGED <<task, args, cancelled, hist>>

\* lines 245-246: Page.navigate to the search URL and wait for the document
process_task_navigate ==
  /\ pc = "pt_navigate"
  /\ UNCHANGED outside
  /\ hist' = [hist EXCEPT !.navs = @ + 1]
  /\ \/ cdp_ok(Ev("navigate", "retry", 0, 0, 0, "ok"), "pt_retry_resolve") /\ UNCHANGED locals
     \/ cdp_raise(Ev("navigate", "retry", 0, 0, 0, "raise"))
  /\ UNCHANGED <<task, args, cancelled>>

\* mutant: the second pass is sent to the context the session was opened with
process_task_retry_resolve_stale_context ==
  /\ pc = "pt_retry_resolve"
  /\ UNCHANGED outside
  /\ \/ /\ cdp_ok(Ev("resolve", pc, 0, 0, 0, "found"), "sj_wait")
        /\ pass' = 2
        /\ UNCHANGED <<context_id, count, page, advances, site, result, stats,
                       analysis, job>>
     \/ cdp_raise(Ev("resolve", pc, 0, 0, 0, "missing"))
  /\ UNCHANGED <<task, args, cancelled, hist>>

\* lines 247-258: resolve the accessor again; CDPError when it is gone,
\* else the second execute_scrape_job, which is given retry_context_id;
\* line 259 makes it the context_id of what follows the pass
process_task_retry_resolve ==
  /\ pc = "pt_retry_resolve"
  /\ UNCHANGED outside
  /\ \/ /\ cdp_ok(Ev("resolve", pc, 0, 0, 0, "found"), "sj_wait")
        /\ pass' = 2
        /\ context_id' = "retry"
        /\ UNCHANGED <<count, page, advances, site, result, stats, analysis,
                       job>>
     \/ cdp_raise(Ev("resolve", pc, 0, 0, 0, "missing"))
  /\ UNCHANGED <<task, args, cancelled, hist>>

\* line 325: `if auto_analyze and keyword`
after_submit(auto_analyze, keyword) ==
  IF auto_analyze /\ keyword # "" THEN "pt_search" ELSE "pt_complete"

\* config["keyword"] stripped and bool(config.get("autoAnalyze")) (lines
\* 188-190): they are read with the config and first matter at line 325,
\* where the model draws them
Keywords == {"", "kw"}

\* lines 263-279: still zero records: read the status and the URL for the log
process_task_final_status ==
  /\ pc = "pt_final_status"
  /\ UNCHANGED outside
  /\ \/ \E a \in BOOLEAN, k \in Keywords :
          /\ cdp_ok(eval_json(Ev("eval", "status", 0, 0, 0, "ok"), context_id), after_submit(a, k))
          /\ analysis' = [NoAnalysis EXCEPT !.auto = a, !.keyword = k]
          /\ job' = NoJob
          /\ UNCHANGED <<pass, context_id, count, page, advances, site, result, stats>>
     \/ cdp_raise(eval_json(Ev("eval", "status", 0, 0, 0, "raise"), context_id))
  /\ UNCHANGED <<task, args, cancelled, hist>>

StatFields == {"input", "submitted", "deduped", "identityDeduped",
               "identityMatched", "legacyExternalIdMatched", "inserted",
               "updated", "unchanged"}

\* answers of resume_tasks:submitResumes to `n` records: a dict holding all,
\* some or none of the statistics, or a value that is no dict
Responses(n) ==
  { [dict |-> TRUE,  val |-> [f \in StatFields |-> n + 1]],
    [dict |-> TRUE,  val |-> [f \in {"deduped", "updated"} |-> n + 1]],
    [dict |-> TRUE,  val |-> [f \in {} |-> 0]],
    [dict |-> FALSE, val |-> [f \in {} |-> 0]] }

\* mutant: submitted is counted by the worker instead of read from the answer
submit_stats_recomputed(resp, n) ==
  IF resp.dict
    THEN [f \in StatFields |->
            IF f = "submitted" THEN n
            ELSE IF f \in DOMAIN resp.val THEN resp.val[f]
            ELSE IF f = "input" THEN n ELSE 0]
    ELSE [NoStats EXCEPT !.input = n, !.submitted = n]

\* lines 311-323: submit_stats from the response: dict.get(name, default) per
\* field when the answer is a dict (int() of the answer's integer is that
\* integer), the record count for input and submitted when it is not
submit_stats(resp, n) ==
  IF resp.dict
    THEN [f \in StatFields |->
            IF f \in DOMAIN resp.val THEN resp.val[f]
            ELSE IF f \in {"input", "submitted"} THEN n ELSE 0]
    ELSE [NoStats EXCEPT !.input = n, !.submitted = n]

\* lines 295-323: format the records and submit them in one mutation
process_task_submit ==
  /\ pc = "pt_submit"
  /\ UNCHANGED outside
  /\ \/ \E resp \in Responses(count), a \in BOOLEAN, k \in Keywords :
          /\ stats' = submit_stats(resp, count)
          /\ analysis' = [NoAnalysis EXCEPT !.auto = a, !.keyword = k]
          /\ pc' = after_submit(a, k)
          /\ issue(Ev("submitResumes", "", count, 0, 0, "ok"), FALSE)
          /\ hist' = [hist EXCEPT !.submits = @ + 1, !.submitted = @ + 1,
                                  !.resp = <<resp.val>>]
          /\ job' = NoJob
          /\ UNCHANGED <<socket, pass, context_id, count, page, advances, site, result,
                         exc, first>>
     \/ \E len \in MsgLens :
          /\ issue(Ev("submitResumes", "", count, 0, 0, "raise"), TRUE)
          /\ hist' = [hist EXCEPT !.submits = @ + 1]
          /\ raise_in_task("error", len, "submitResumes")
  /\ UNCHANGED <<task, args, cancelled>>

\* lines 326-335 and 354-359: resumes:search; a failure is logged only
process_task_search ==
  /\ pc = "pt_search"
  /\ UNCHANGED outside
  /\ \/ \E ids \in 0..MaxHits :
          /\ analysis' = [analysis EXCEPT !.n = ids]
          /\ pc' = IF ids > 0 THEN "pt_dispatch" ELSE "pt_complete"
          /\ issue(Ev("search", "", ids, 0, 0, "ok"), FALSE)
          /\ UNCHANGED hist
     \/ /\ pc' = "pt_complete"
        /\ issue(Ev("search", "", 0, 0, 0, "raise"), FALSE)
        /\ hist' = [hist EXCEPT !.afail = TRUE]
        /\ UNCHANGED analysis
  /\ UNCHANGED <<task, args, socket, pass, context_id, count, page, advances, site, result,
                 stats, exc, first, cancelled, job>>

\* mutant: auto_analyzed is counted before the dispatch has returned
process_task_dispatch_counts_first ==
  /\ pc = "pt_dispatch"
  /\ UNCHANGED outside
  /\ pc' = "pt_complete"
  /\ \/ \E id \in BOOLEAN :
          /\ analysis' = [analysis EXCEPT !.id = id]
          /\ issue(Ev("dispatch", "", analysis.n, 0, 0, "ok"), FALSE)
          /\ UNCHANGED hist
     \/ /\ analysis' = [analysis EXCEPT !.id = FALSE]
        /\ issue(Ev("dispatch", "", analysis.n, 0, 0, "raise"), FALSE)
        /\ hist' = [hist EXCEPT !.afail = TRUE]
  /\ UNCHANGED <<task, args, socket, pass, context_id, count, page, advances, site, result,
                 stats, exc, first, cancelled, job>>

\* lines 336-347 and 354-359: analysis_tasks:dispatch; auto_analyzed is set
\* after the mutation returned, a failure is logged only
process_task_dispatch ==
  /\ pc = "pt_dispatch"
  /\ UNCHANGED outside
  /\ pc' = "pt_complete"
  /\ \/ \E id \in BOOLEAN :
          /\ analysis' = [analysis EXCEPT !.id = id]
          /\ issue(Ev("dispatch", "", analysis.n, 0, 0, "ok"), FALSE)
          /\ UNCHANGED hist
     \/ /\ analysis' = [analysis EXCEPT !.n = 0, !.id = FALSE]
        /\ issue(Ev("dispatch", "", analysis.n, 0, 0, "raise"), FALSE)
        /\ hist' = [hist EXCEPT !.afail = TRUE]
  /\ UNCHANGED <<task, args, socket, pass, context_id, count, page, advances, site, result,
                 stats, exc, first, cancelled, job>>

\* lines 361-380: complete(status="completed", results); the history keeps
\* the answer of submitResumes until it has been reported
process_task_complete ==
  /\ pc = "pt_complete"
  /\ UNCHANGED outside
  /\ hist' = [hist EXCEPT !.done = @ + 1, !.resp = <<>>]
  /\ LET ev(res) == Ev("complete", "completed", count, stats.submitted,
                       analysis.n, res)
     IN \/ /\ pc' = "pt_done_hb"
           /\ issue(ev("ok"), TRUE)
           /\ UNCHANGED <<socket, locals, exc, first>>
        \/ \E len \in MsgLens :
             /\ issue(ev("raise"), TRUE)
             /\ raise_in_task("error", len, "complete")
  /\ UNCHANGED <<task, args, cancelled>>

\* mutant: a failure of the idle heartbeat after complete is raised inside
\* the try block
process_task_done_heartbeat_raises ==
  /\ pc = "pt_done_hb"
  /\ UNCHANGED outside
  /\ \/ /\ heartbeat("idle", FALSE, 0, TRUE, "loop_hb")
        /\ close_session
        /\ reset_locals
        /\ UNCHANGED <<exc, first>>
     \/ \E len \in MsgLens :
          /\ issue(HbEv("idle", 0, NoError, "fail"), FALSE)
          /\ raise_in_task("error", len, "heartbeat")
  /\ UNCHANGED <<task, args, cancelled, hist>>

\* lines 381-382: the idle heartbeat, then the session scope and
\* process_task end
process_task_done ==
  /\ pc = "pt_done_hb"
  /\ UNCHANGED outside
  /\ \E ok \in BOOLEAN : heartbeat("idle", FALSE, 0, ok, "loop_hb")
  /\ close_session
  /\ reset_locals
  /\ UNCHANGED <<task, args, exc, first, cancelled, hist>>

\* lines 384-387: except CancellationError
process_task_cancelled ==
  /\ pc = "pt_cancel_hb"
  /\ UNCHANGED outside
  /\ \E ok \in BOOLEAN : heartbeat("idle", FALSE, 0, ok, "loop_hb")
  /\ UNCHANGED <<task, args, socket, locals, exc, first, cancelled, hist>>

\* lines 388-390: except Exception: the error heartbeat
process_task_failed ==
  /\ pc = "pt_fail_hb"
  /\ UNCHANGED outside
  /\ \E ok \in BOOLEAN : heartbeat("error", TRUE, exc.len, ok, "pt_fail_complete")
  /\ UNCHANGED <<task, args, socket, locals, exc, first, cancelled, hist>>

\* lines 391-395: complete(status="failed", error=str(e)); its own failure
\* leaves process_task
process_task_failed_complete ==
  /\ pc = "pt_fail_complete"
  /\ UNCHANGED outside
  /\ hist' = [hist EXCEPT !.failed = @ + 1]
  /\ \/ /\ pc' = "pt_fail_idle_hb"
        /\ issue(Ev("complete", "failed", exc.len, 0, 0, "ok"), FALSE)
        /\ UNCHANGED exc
     \/ \E len \in MsgLens :
          /\ raise_in_loop(len, "complete_failed")
          /\ issue(Ev("complete", "failed", exc.len, 0, 0, "raise"), FALSE)
  /\ UNCHANGED <<task, args, socket, locals, first, cancelled>>

\* line 396
process_task_failed_idle ==
  /\ pc = "pt_fail_idle_hb"
  /\ UNCHANGED outside
  /\ \E ok \in BOOLEAN : heartbeat("idle", FALSE, 0, ok, "loop_hb")
  /\ UNCHANGED <<task, args, socket, locals, exc, first, cancelled, hist>>

(* ------------------------------ the queue ------------------------------ *)
\* the positions at which the claimed task is still running on the queue
Running ==
  pc \in {"claimed_hb", "pt_hb", "pt_config", "op_update", "op_hb",
          "open_targets", "open_connect", "open_enable", "open_resolve1",
          "open_navigate", "open_resolve2", "open_resolve3", "open_status",
          "pt_url", "sj_wait", "sj_extract", "sj_next", "pt_first_status",
          "pt_navigate", "pt_retry_resolve", "pt_final_status", "pt_submit",
          "pt_search", "pt_dispatch", "pt_complete"}

\* a user cancels the running task: from now on the queue answers
\* updateProgress with status "cancelled"
queue_cancel ==
  /\ Running
  /\ UNCHANGED outside
  /\ ~cancelled
  /\ cancelled' = TRUE
  /\ UNCHANGED <<pc, task, args, socket, locals, exc, first, call, hist, epi>>

(* ------------------- CDPClient of refresh_sample.py -------------------- *)
\* most calls made on one transport
MaxCalls == 2
\* most frames other than the awaited response that one call reads
MaxFrames == 2

\* execution contexts: Chrome numbers them from 1; names are numbered in
\* their string order, and the names in SigNames contain "Resume" or
\* "智通直聘"; iso: auxData.type == "isolated"
CtxIds == {1, 2}
Names == {1, 2, 3}
SigNames == {2}
Ctxs == [id : CtxIds, name : Names, iso : BOOLEAN]
NoCtx == [id |-> 0, name |-> 0, iso |-> FALSE]

\* client.contexts, a dict in insertion order: the contexts, no id twice
Registries ==
  { r \in UNION { [1..n -> Ctxs] : n \in 0..Cardinality(CtxIds) } :
      \A i, j \in DOMAIN r : i # j => r[i].id # r[j].id }

\* the frames of the inbound stream, and the two ways a read ends without one
Frame(kind, method, ctx, id, error) ==
  [kind |-> kind, method |-> method, ctx |-> ctx, id |-> id, error |-> error]
NoFrame == Frame("none", "", NoCtx, 0, FALSE)
TimeoutFrame == Frame("timeout", "", NoCtx, 0, FALSE)
ClosedFrame == Frame("closed", "", NoCtx, 0, FALSE)

\* the contexts the browser announces while a call waits
WireCtxs == { c \in Ctxs : c.iso /\ c.name <= 2 }

\* Runtime.executionContextCreated / Destroyed / sCleared, and any other event
Events ==
  { Frame("event", "created", c, 0, FALSE) : c \in WireCtxs }
    \cup { Frame("event", "destroyed", NoCtx, i, FALSE) : i \in CtxIds }
    \cup { Frame("event", "cleared", NoCtx, 0, FALSE),
           Frame("event", "other", NoCtx, 0, FALSE) }

\* the responses the browser can send: one per request it has not answered
Responses_to(pending) ==
  { Frame("response", "", NoCtx, i, e) : i \in pending, e \in BOOLEAN }

\* self.contexts[context["id"]] = context: a known id keeps its place
put(contexts, ctx) ==
  IF \E i \in DOMAIN contexts : contexts[i].id = ctx.id
    THEN [i \in DOMAIN contexts |->
            IF contexts[i].id = ctx.id THEN ctx ELSE contexts[i]]
    ELSE Append(contexts, ctx)

\* self.contexts.pop(context_id, None)
pop(contexts, id) == SelectSeq(contexts, LAMBDA c : c.id # id)

\* mutant: a destroyed context takes the whole registry with it
handle_event_destroyed_clears(contexts, msg) ==
  CASE msg.method = "created" ->
         IF msg.ctx # NoCtx THEN put(contexts, msg.ctx) ELSE contexts
    [] msg.method = "destroyed" ->
         IF \E i \in DOMAIN contexts : contexts[i].id = msg.id
           THEN <<>> ELSE contexts
    [] msg.method = "cleared" -> <<>>
    [] OTHER -> contexts

\* CDPClient._handle_event
handle_event(contexts, msg) ==
  CASE msg.method = "created" ->
         IF msg.ctx # NoCtx THEN put(contexts, msg.ctx) ELSE contexts
    [] msg.method = "destroyed" -> pop(contexts, msg.id)
    [] msg.method = "cleared" -> <<>>
    [] OTHER -> contexts

NoClient == [next_id |-> 0, contexts |-> <<>>]
NoRpc == [state |-> "idle", request_id |-> 0, read |-> 0, frame |-> NoFrame,
          error |-> "none", events |-> <<>>, before |-> <<>>]
NoWire == [open |-> TRUE, pending |-> {}, sent |-> {}, reused |-> FALSE,
           lost |-> {}]
NoRes == [state |-> "start", reg |-> <<>>, order |-> <<>>, idx |-> 0,
          found |-> FALSE, id |-> 0, probes |-> <<>>]

\* lines 154-160 of CDPClient.call: the next request id, then ws.send; on a
\* closed socket send raises websockets' ConnectionClosed
CDPClient_call_send ==
  /\ rpc.state # "waiting"
  /\ client.next_id < MaxCalls
  /\ LET request_id == client.next_id + 1
     IN /\ client' = [client EXCEPT !.next_id = request_id]
        /\ IF wire.open
             THEN /\ rpc' = [NoRpc EXCEPT !.state = "waiting",
                                          !.request_id = request_id,
                                          !.before = client.contexts]
                  /\ wire' = [wire EXCEPT !.pending = @ \cup {request_id},
                                          !.sent = @ \cup {request_id},
                                          !.reused = @ \/ request_id \in wire.sent]
             ELSE /\ rpc' = [NoRpc EXCEPT !.state = "raised",
                                          !.request_id = request_id,
                                          !.frame = ClosedFrame,
                                          !.error = "ConnectionClosed",
                                          !.before = client.contexts]
                  /\ wire' = wire
  /\ UNCHANGED <<workervars, pool, keys, resolving>>

\* mutant: the first response read ends the call, whatever its id
CDPClient_call_recv_any_response ==
  /\ rpc.state = "waiting"
  /\ \/ /\ rpc' = [rpc EXCEPT !.state = "raised", !.error = "CDPError",
                              !.frame = TimeoutFrame]
        /\ UNCHANGED <<client, wire>>
     \/ /\ rpc' = [rpc EXCEPT !.state = "raised", !.error = "ConnectionClosed",
                              !.frame = ClosedFrame]
        /\ wire' = [wire EXCEPT !.open = FALSE]
        /\ UNCHANGED client
     \/ \E msg \in Events :
          /\ rpc.read < MaxFrames
          /\ client' = [client EXCEPT !.contexts = handle_event(@, msg)]
          /\ rpc' = [rpc EXCEPT !.read = @ + 1, !.frame = msg,
                                !.events = Append(@, msg)]
          /\ UNCHANGED wire
     \/ \E msg \in Responses_to(wire.pending) :
          /\ rpc' = [rpc EXCEPT !.frame = msg,
                                !.state = IF msg.error THEN "raised" ELSE "returned",
                                !.error = IF msg.error THEN "CDPError" ELSE "none"]
          /\ wire' = [wire EXCEPT !.pending = @ \ {msg.id}]
          /\ UNCHANGED client
  /\ UNCHANGED <<workervars, pool, keys, resolving>>

\* mutant: event frames are skipped without being dispatched
CDPClient_call_recv_skips_events ==
  /\ rpc.state = "waiting"
  /\ \/ /\ rpc' = [rpc EXCEPT !.state = "raised", !.error = "CDPError",
                              !.frame = TimeoutFrame]
        /\ UNCHANGED <<client, wire>>
     \/ /\ rpc' = [rpc EXCEPT !.state = "raised", !.error = "ConnectionClosed",
                              !.frame = ClosedFrame]
        /\ wire' = [wire EXCEPT !.open = FALSE]
        /\ UNCHANGED client
     \/ \E msg \in Events :
          /\ rpc.read < MaxFrames
          /\ rpc' = [rpc EXCEPT !.read = @ + 1, !.frame = msg,
                                !.events = Append(@, msg)]
          /\ UNCHANGED <<client, wire>>
     \/ \E msg \in Responses_to(wire.pending) :
          /\ wire' = [wire EXCEPT !.pending = @ \ {msg.id},
                                  !.lost = IF msg.id = rpc.request_id
                                             THEN @ ELSE @ \cup {msg.id}]
          /\ IF msg.id = rpc.request_id
               THEN rpc' = [rpc EXCEPT !.frame = msg,
                              !.state = IF msg.error THEN "raised" ELSE "returned",
                              !.error = IF msg.error THEN "CDPError" ELSE "none"]
               ELSE /\ rpc.read < MaxFrames
                    /\ rpc' = [rpc EXCEPT !.read = @ + 1, !.frame = msg]
          /\ UNCHANGED client
  /\ UNCHANGED <<workervars, pool, keys, resolving>>

\* lines 161-172 of CDPClient.call, one turn of its loop, with _recv (lines
\* 131-137): the deadline passes (CDPError); ws.recv raises ConnectionClosed,
\* which nothing converts; an event frame is dispatched and the loop goes
\* on; a response with the request's id ends the call, by CDPError when it
\* carries an error; a response with another id is read and forgotten
CDPClient_call_recv ==
  /\ rpc.state = "waiting"
  /\ \/ /\ rpc' = [rpc EXCEPT !.state = "raised", !.error = "CDPError",
                              !.frame = TimeoutFrame]
        /\ UNCHANGED <<client, wire>>
     \/ /\ rpc' = [rpc EXCEPT !.state = "raised", !.error = "ConnectionClosed",
                              !.frame = ClosedFrame]
        /\ wire' = [wire EXCEPT !.open = FALSE]
        /\ UNCHANGED client
     \/ \E msg \in Events :
          /\ rpc.read < MaxFrames
          /\ client' = [client EXCEPT !.contexts = handle_event(@, msg)]
          /\ rpc' = [rpc EXCEPT !.read = @ + 1, !.frame = msg,
                                !.events = Append(@, msg)]
          /\ UNCHANGED wire
     \/ \E msg \in Responses_to(wire.pending) :
          /\ wire' = [wire EXCEPT !.pending = @ \ {msg.id},
                                  !.lost = IF msg.id = rpc.request_id
                                             THEN @ ELSE @ \cup {msg.id}]
          /\ IF msg.id = rpc.request_id
               THEN rpc' = [rpc EXCEPT !.frame = msg,
                              !.state = IF msg.error THEN "raised" ELSE "returned",
                              !.error = IF msg.error THEN "CDPError" ELSE "none"]
               ELSE /\ rpc.read < MaxFrames
                    /\ rpc' = [rpc EXCEPT !.read = @ + 1, !.frame = msg]
          /\ UNCHANGED client
  /\ UNCHANGED <<workervars, pool, keys, resolving>>

(* ---------------------- resolve_accessor_context ----------------------- *)
\* rank(ctx) of pick_contexts: (0, name) for a signature name, else (1, name)
rank(ctx) == <<IF ctx.name \in SigNames THEN 0 ELSE 1, ctx.name>>

\* the order of Python tuples
rank_le(a, b) == a[1] < b[1] \/ (a[1] = b[1] /\ a[2] <= b[2])

\* list.sort(key=rank): stable, equal keys keep their order
RECURSIVE sort_by_rank(_)
sort_by_rank(list) ==
  IF list = <<>> THEN <<>>
  ELSE LET sorted == sort_by_rank(SubSeq(list, 1, Len(list) - 1))
           x == list[Len(list)]
           k == Cardinality({i \in DOMAIN sorted : rank_le(rank(sorted[i]), rank(x))})
       IN SubSeq(sorted, 1, k) \o <<x>> \o SubSeq(sorted, k + 1, Len(sorted))

\* mutant: the candidates are probed in the order of the registry
pick_contexts_unranked(contexts) ==
  LET isolated == SelectSeq(contexts, LAMBDA c : c.iso)
  IN IF isolated = <<>> THEN contexts ELSE isolated

\* pick_contexts: the isolated contexts, or all of them when none is
\* isolated, sorted by rank
pick_contexts(contexts) ==
  LET isolated == SelectSeq(contexts, LAMBDA c : c.iso)
  IN sort_by_rank(IF isolated = <<>> THEN contexts ELSE isolated)

\* what a probe (eval_json of the feature test) comes to: a truthy or falsy
\* value, CDPError (timeout, error response, exceptionDetails), or the
\* ConnectionClosed of a closed socket
ProbeOuts == {"true", "false", "CDPError", "closed"}

\* the registry after the events a probe's call dispatched
after_events(contexts, evs) ==
  IF evs = <<>> THEN contexts ELSE handle_event(contexts, evs[1])

EventRuns == {<<>>} \cup { <<e>> : e \in Events }

\* lines 215-221: the probe of the default context, then pick_contexts on
\* the registry as it is by then
resolve_accessor_context_default ==
  /\ resolving.state = "start"
  /\ \E out \in ProbeOuts, evs \in EventRuns :
       LET contexts == after_events(client.contexts, evs)
           order == pick_contexts(contexts)
           probed == <<[id |-> 0, out |-> out]>>
       IN /\ client' = [client EXCEPT !.contexts = contexts]
          /\ resolving' =
               CASE out = "true" ->
                      [resolving EXCEPT !.state = "returned", !.found = TRUE,
                                  !.probes = probed]
                 [] out = "closed" ->
                      [resolving EXCEPT !.state = "raised", !.probes = probed]
                 [] OTHER ->
                      [resolving EXCEPT !.state = IF order = <<>> THEN "returned"
                                                           ELSE "probing",
                                  !.reg = contexts, !.order = order,
                                  !.idx = 1, !.probes = probed]
  /\ UNCHANGED <<workervars, pool, keys, rpc, wire>>

\* lines 221-230: the probe of the next candidate; a candidate without id is
\* passed over, CDPError counts as a miss
resolve_accessor_context_probe ==
  /\ resolving.state = "probing"
  /\ LET ctx == resolving.order[resolving.idx]
         last == resolving.idx = Len(resolving.order)
     IN IF ctx.id = 0
          THEN /\ resolving' = [resolving EXCEPT !.idx = @ + 1,
                            !.state = IF last THEN "returned" ELSE @]
               /\ UNCHANGED client
          ELSE \E out \in ProbeOuts, evs \in EventRuns :
                 LET probed == Append(resolving.probes, [id |-> ctx.id, out |-> out])
                 IN /\ client' = [client EXCEPT !.contexts = after_events(@, evs)]
                    /\ resolving' =
                         CASE out = "true" ->
                                [resolving EXCEPT !.state = "returned", !.found = TRUE,
                                            !.id = ctx.id, !.probes = probed]
                           [] out = "closed" ->
                                [resolving EXCEPT !.state = "raised", !.probes = probed]
                           [] OTHER ->
                                [resolving EXCEPT !.idx = @ + 1, !.probes = probed,
                                   !.state = IF last THEN "returned" ELSE @]
  /\ UNCHANGED <<workervars, pool, keys, rpc, wire>>

(* -------------------- several workers on one queue --------------------- *)
\* number of worker processes polling the queue
MaxWorkers == 2
\* number of tasks the queue holds
MaxQueued == 2

Fleet == 1..MaxWorkers
Queued == 1..MaxQueued

\* worker_loop of one process: where it stands, its local `task`, and the
\* task its last claim returned while process_task has not ended (0: none)
Idle == [pc |-> "claim", task |-> 0, own |-> 0]
NoSent == [worker |-> 0, op |-> "none", task |-> 0, own |-> 0, owner |-> 0]

\* the call worker `w` issues for its local task
Sent(w, op) ==
  [worker |-> w, op |-> op, task |-> fleet[w].task, own |-> fleet[w].own,
   owner |-> queue[fleet[w].task].owner]

\* the tasks resume_tasks:claim can hand out
Claimable == {t \in Queued : queue[t].status = "pending"}

\* resume_tasks:claim on the server: one step assigns a pending task to the
\* calling worker
queue_claim(w, t) ==
  [queue EXCEPT ![t] = [status |-> "processing", owner |-> w]]

\* resume_tasks:complete on the server: a task under way takes the reported
\* status, a cancelled one stays cancelled
queue_complete(t, status) ==
  IF queue[t].status = "processing"
    THEN [queue EXCEPT ![t].status = status]
    ELSE queue

\* mutant: after a failed claim the loop goes on with the task of the
\* previous iteration
fleet_claim_stale(w) ==
  /\ fleet[w].pc = "claim"
  /\ \/ \E t \in Claimable :
          /\ queue' = queue_claim(w, t)
          /\ fleet' = [fleet EXCEPT ![w] = [pc |-> "claimed", task |-> t,
                                            own |-> t]]
          /\ sent' = [worker |-> w, op |-> "claim", task |-> t, own |-> t,
                      owner |-> w]
     \/ /\ Claimable = {}
        /\ fleet' = [fleet EXCEPT ![w] = Idle]
        /\ sent' = [NoSent EXCEPT !.worker = w, !.op = "claim"]
        /\ UNCHANGED queue
     \/ /\ \/ UNCHANGED queue
           \/ \E t \in Claimable : queue' = queue_claim(w, t)
        /\ fleet' = [fleet EXCEPT ![w].own = 0,
                                  ![w].pc = IF fleet[w].task # 0
                                              THEN "claimed" ELSE "claim"]
        /\ sent' = [NoSent EXCEPT !.worker = w, !.op = "claim"]
  /\ UNCHANGED <<workervars, cdp, keys>>

\* lines 405-414 of worker_loop: the claim hands the worker a pending task,
\* or null when none is pending, or fails (with or without the server having
\* assigned a task): only a returned task is processed, `task` keeps its old
\* value when the call raises
fleet_claim(w) ==
  /\ fleet[w].pc = "claim"
  /\ \/ \E t \in Claimable :
          /\ queue' = queue_claim(w, t)
          /\ fleet' = [fleet EXCEPT ![w] = [pc |-> "claimed", task |-> t,
                                            own |-> t]]
          /\ sent' = [worker |-> w, op |-> "claim", task |-> t, own |-> t,
                      owner |-> w]
     \/ /\ Claimable = {}
        /\ fleet' = [fleet EXCEPT ![w] = Idle]
        /\ sent' = [NoSent EXCEPT !.worker = w, !.op = "claim"]
        /\ UNCHANGED queue
     \/ /\ \/ UNCHANGED queue
           \/ \E t \in Claimable : queue' = queue_claim(w, t)
        /\ fleet' = [fleet EXCEPT ![w].own = 0]
        /\ sent' = [NoSent EXCEPT !.worker = w, !.op = "claim"]
  /\ UNCHANGED <<workervars, cdp, keys>>

\* lines 185-197 of process_task: the config is read outside the try block;
\* an exception there ends process_task with no call for the task
fleet_config(w) ==
  /\ fleet[w].pc = "claimed"
  /\ \/ fleet' = [fleet EXCEPT ![w].pc = "processing"]
     \/ fleet' = [fleet EXCEPT ![w].pc = "claim", ![w].own = 0]
  /\ UNCHANGED <<workervars, cdp, keys, queue, sent>>

\* lines 199-208, on_progress: updateProgress names task["_id"]; the answer
\* "cancelled" ends process_task, a failure leads to the except clause
fleet_progress(w) ==
  /\ fleet[w].pc = "processing"
  /\ sent' = Sent(w, "updateProgress")
  /\ \/ /\ queue[fleet[w].task].status = "cancelled"
        /\ fleet' = [fleet EXCEPT ![w].pc = "claim", ![w].own = 0]
     \/ /\ queue[fleet[w].task].status # "cancelled"
        /\ UNCHANGED fleet
     \/ fleet' = [fleet EXCEPT ![w].pc = "failing"]
  /\ UNCHANGED <<workervars, cdp, keys, queue>>

\* lines 361-382: complete(status="completed") names task["_id"]; a failure,
\* with or without the server having recorded the call, leads to the except
\* clause
fleet_complete(w) ==
  /\ fleet[w].pc = "processing"
  /\ sent' = Sent(w, "complete")
  /\ \/ /\ queue' = queue_complete(fleet[w].task, "completed")
        /\ fleet' = [fleet EXCEPT ![w].pc = "claim", ![w].own = 0]
     \/ /\ \/ queue' = queue_complete(fleet[w].task, "completed")
           \/ UNCHANGED queue
        /\ fleet' = [fleet EXCEPT ![w].pc = "failing"]
  /\ UNCHANGED <<workervars, cdp, keys>>

\* lines 388-396: complete(status="failed") names task["_id"]; process_task
\* ends whether the call returns or raises
fleet_failed(w) ==
  /\ fleet[w].pc = "failing"
  /\ sent' = Sent(w, "complete")
  /\ \/ queue' = queue_complete(fleet[w].task, "failed")
     \/ UNCHANGED queue
  /\ fleet' = [fleet EXCEPT ![w].pc = "claim", ![w].own = 0]
  /\ UNCHANGED <<workervars, cdp, keys>>

\* the queue service: a user cancels a task under way
queue_cancel_task(t) ==
  /\ queue[t].status = "processing"
  /\ queue' = [queue EXCEPT ![t].status = "cancelled"]
  /\ UNCHANGED <<workervars, cdp, keys, fleet, sent>>

\* the queue service: a failed task is queued again
queue_retry(t) ==
  /\ queue[t].status = "failed"
  /\ queue' = [queue EXCEPT ![t] = [status |-> "pending", owner |-> 0]]
  /\ UNCHANGED <<workervars, cdp, keys, fleet, sent>>

(* ------------------- derive_external_id of worker.py ------------------- *)
\* most query parameters of a profile URL
MaxParams == 2
\* most fields of a scraped record
MaxFields == 2

\* a Python string, in the pieces urlsplit tells apart: blanks around it,
\* the "scheme://" prefix, the authority, the path, the query parameters as
\* written (`eq`: with an "=" sign) and the "#fragment"
Text(pad, scheme, auth, path, query, frag) ==
  [pad |-> pad, scheme |-> scheme, auth |-> auth, path |-> path,
   query |-> query, frag |-> frag]
NoText == Text(FALSE, "", "", "", <<>>, "")
Word(s) == Text(FALSE, "", s, "", <<>>, "")

\* the values a record holds and the results of the helpers
None == [kind |-> "none"]
Str(t) == [kind |-> "str", text |-> t]
\* the ValueError ("Invalid IPv6 URL") urlsplit raises
Raised == [kind |-> "raise"]
Pending == [kind |-> "pending"]
\* no further call made yet
NoTwin == [how |-> "none", field |-> "", id |-> Pending]

\* str.lower on the pieces the inputs are built from
Low(s) ==
  CASE s = "H.com" -> "h.com"
    [] s = "H.com:80" -> "h.com:80"
    [] s = "[H.com" -> "[h.com"
    [] s = "R1" -> "r1"
    [] s = "/P" -> "/p"
    [] s = "/P/" -> "/p/"
    [] s = "HTTP://" -> "http://"
    [] s = "B" -> "b"
    [] s = "JavaScript:void(0)" -> "javascript:void(0)"
    [] OTHER -> s

\* str.lower
lower(t) ==
  [pad |-> t.pad, scheme |-> Low(t.scheme), auth |-> Low(t.auth),
   path |-> Low(t.path),
   query |-> [i \in DOMAIN t.query |->
                [key |-> Low(t.query[i].key), val |-> Low(t.query[i].val),
                 eq |-> t.query[i].eq]],
   frag |-> Low(t.frag)]

\* str.strip
strip(t) == [t EXCEPT !.pad = FALSE]

\* str.rstrip("/") on a path
RStrip(p) ==
  CASE p = "/" -> ""
    [] p = "/p/" -> "/p"
    [] p = "/P/" -> "/P"
    [] OTHER -> p

\* lines 70-72: the hrefs that stand for no link
NoOpHrefs == {Word("javascript:;"), Word("javascript:void(0)"),
              Text(FALSE, "", "", "", <<>>, "#")}

\* urllib.parse.urlsplit: scheme and netloc of a string (path, query and
\* fragment are the pieces of the string itself); the netloc is read only
\* after "//", and an unclosed bracket in it raises ValueError; without
\* "//" an authority "host:port" is read as "scheme:rest"
urlsplit(t) ==
  LET WithPort == {"H.com:80", "h.com:80"}
      Bracketed == {"[H.com", "[h.com"}
  IN IF t.scheme # ""
       THEN [scheme |-> Low(t.scheme), netloc |-> t.auth,
             raises |-> t.auth \in Bracketed]
       ELSE [scheme |-> IF t.auth \in WithPort THEN "h.com" ELSE "",
             netloc |-> "", raises |-> FALSE]

\* tuple order of Python on (key, val), by the code points of the keys and
\* values of the inputs
pair_le(p, q) ==
  LET Code(s) == CASE s = "" -> 0
                   [] s = "1" -> 1
                   [] s = "B" -> 2
                   [] s = "a" -> 3
                   [] s = "b" -> 4
                   [] OTHER -> 5
  IN \/ Code(p.key) < Code(q.key)
     \/ Code(p.key) = Code(q.key) /\ Code(p.val) <= Code(q.val)

RECURSIVE sorted(_)
\* sorted(): stable insertion of the last pair into the sorted rest
sorted(pairs) ==
  IF pairs = <<>> THEN <<>>
  ELSE LET init == sorted(SubSeq(pairs, 1, Len(pairs) - 1))
           p == pairs[Len(pairs)]
           n == Cardinality({i \in DOMAIN init : pair_le(init[i], p)})
       IN SubSeq(init, 1, n) \o <<p>> \o SubSeq(init, n + 1, Len(init))

\* parse_qsl(query, keep_blank_values=True): "key" and "key=" both give
\* (key, "")
parse_qsl(query) ==
  [i \in DOMAIN query |-> [key |-> query[i].key, val |-> query[i].val]]

\* urlencode: every pair is written "key=val"
urlencode(pairs) ==
  [i \in DOMAIN pairs |->
     [key |-> pairs[i].key, val |-> pairs[i].val, eq |-> TRUE]]

\* line 85: key.lower().startswith("utm_")
is_utm(name) == Low(name) = "utm_s"

\* lines 52-58: a string is stripped (None when nothing is left), a number
\* that is not a bool is printed, anything else is None
read_str(value) ==
  CASE value.kind = "str" ->
         IF strip(value.text) = NoText THEN None ELSE Str(strip(value.text))
    [] value.kind = "int" -> Str(Word(value.s))
    [] OTHER -> None

\* lines 60-64
normalize_token(value) ==
  IF strip(value) = NoText THEN None ELSE Str(lower(strip(value)))

\* lines 66-99: with a netloc (read after "//", which is put in front of a
\* string that has neither scheme nor netloc) the key is host, path and the
\* sorted query without utm_ parameters; without one it is the lowered
\* string less "http(s)://", fragment and trailing "/"
normalize_profile_url(value) ==
  LET trimmed == strip(value)
      split == urlsplit(trimmed)
      parsed == IF split.netloc = "" /\ split.scheme = ""
                  THEN urlsplit([trimmed EXCEPT !.scheme = "https://"])
                  ELSE split
      host == Low(parsed.netloc)
      path == IF RStrip(trimmed.path) = "" THEN "/" ELSE RStrip(trimmed.path)
      query_pairs == sorted(SelectSeq(parse_qsl(trimmed.query),
                                      LAMBDA p : ~is_utm(p.key)))
      lowered == lower(trimmed)
      unschemed == IF lowered.scheme \in {"http://", "https://"}
                     THEN [lowered EXCEPT !.scheme = ""] ELSE lowered
      cut == [unschemed EXCEPT !.frag = ""]
      fallback == IF cut.query = <<>>
                    THEN [cut EXCEPT !.path = RStrip(cut.path)] ELSE cut
  IN IF trimmed = NoText THEN None
     ELSE IF lower(trimmed) \in NoOpHrefs THEN None
     ELSE IF parsed.raises THEN Raised
     ELSE IF parsed.netloc # ""
       THEN Str(lower(Text(FALSE, "", host, path, urlencode(query_pairs), "")))
     ELSE IF fallback = NoText THEN None
     ELSE Str(fallback)

\* dict.get: the value of the field, None when the record has no such field
get(resume, name) ==
  IF \E i \in DOMAIN resume : resume[i].field = name
    THEN resume[CHOOSE i \in DOMAIN resume : resume[i].field = name].value
    ELSE None

\* Python's `a or b` on the results of _read_str
either(a, b) == IF a # None THEN a ELSE b

\* lines 102-107
profile_url(resume) ==
  either(read_str(get(resume, "profileUrl")),
         either(read_str(get(resume, "profile_url")),
                either(read_str(get(resume, "profileURL")),
                       read_str(get(resume, "url")))))

\* line 113
resume_id(resume) ==
  either(read_str(get(resume, "resumeId")), read_str(get(resume, "resume_id")))

\* line 119
per_user_id(resume) ==
  either(read_str(get(resume, "perUserId")),
         read_str(get(resume, "per_user_id")))

\* line 125
external_id(resume) ==
  either(read_str(get(resume, "externalId")),
         read_str(get(resume, "external_id")))

\* the field names in the order of their code points
FieldOrder == <<"age", "externalId", "external_id", "name", "perUserId",
                "per_user_id", "profileURL", "profileUrl", "profile_url",
                "resumeId", "resume_id", "url">>
Rank(name) == CHOOSE i \in DOMAIN FieldOrder : FieldOrder[i] = name

\* json.dumps(resume, sort_keys=True): the items in the order of their keys
sort_keys(resume) ==
  LET at(k) == CHOOSE i \in DOMAIN resume :
                 Cardinality({j \in DOMAIN resume :
                    Rank(resume[j].field) <= Rank(resume[i].field)}) = k
  IN [k \in DOMAIN resume |-> resume[at(k)]]

\* hashlib.md5(json.dumps(r, sort_keys=True).encode()).hexdigest(): one
\* digest for each JSON text
content_hash(resume) == [kind |-> "md5", of |-> sort_keys(resume)]

\* lines 108-131: the chain from the profile URL to the digest
derive_chain(resume, digest) ==
  LET url == profile_url(resume)
      normalized_profile_url ==
        IF url # None THEN normalize_profile_url(url.text) ELSE None
      rid == resume_id(resume)
      normalized_resume_id ==
        IF rid # None THEN normalize_token(rid.text) ELSE None
      pid == per_user_id(resume)
      normalized_per_user_id ==
        IF pid # None THEN normalize_token(pid.text) ELSE None
      eid == external_id(resume)
      normalized_external_id ==
        IF eid # None THEN normalize_token(eid.text) ELSE None
  IN IF normalized_profile_url # None THEN normalized_profile_url
     ELSE IF normalized_resume_id # None THEN normalized_resume_id
     ELSE IF normalized_per_user_id # None THEN normalized_per_user_id
     ELSE IF normalized_external_id # None THEN normalized_external_id
     ELSE digest

\* mutant: the digest is taken of the record as it is, keys not sorted
derive_external_id_unsorted(resume) ==
  derive_chain(resume, [kind |-> "md5", of |-> resume])

\* lines 101-131
derive_external_id(resume) == derive_chain(resume, content_hash(resume))

\* lines 298-305 of process_task: the record as it is submitted; the digest
\* is not reached when derive_external_id raises
format_resume(r) ==
  LET id == derive_external_id(r)
  IN [externalId |-> id,
      hash |-> IF id = Raised THEN Raised ELSE content_hash(r)]

(* the records and strings the functions are applied to *)
Urls ==
  LET Schemes == {"", "https://", "HTTP://"}
      Auths == {"", "H.com", "h.com:80", "[H.com"}
      Paths == {"", "/", "/P/"}
      Frags == {"", "#f"}
      Params == {[key |-> "a", val |-> "1", eq |-> TRUE],
                 [key |-> "B", val |-> "1", eq |-> TRUE],
                 [key |-> "utm_s", val |-> "1", eq |-> TRUE],
                 [key |-> "a", val |-> "", eq |-> FALSE]}
      Queries == UNION {[1..n -> Params] : n \in 0..MaxParams}
  IN {Text(FALSE, s, a, p, q, f) :
        s \in Schemes, a \in Auths, p \in Paths, q \in Queries, f \in Frags}

UrlFields == {"profileUrl", "profile_url", "profileURL", "url"}
IdFields == {"resumeId", "resume_id", "perUserId", "per_user_id",
             "externalId", "external_id"}
\* what a field of the small records can hold
ValuesOf(name) ==
  IF name \in UrlFields
    THEN {Str(NoText), Str(Text(FALSE, "", "", "", <<>>, "#")),
          Str(Text(TRUE, "https://", "H.com", "/P/", <<>>, ""))}
  ELSE IF name \in IdFields
    THEN {Str(Text(TRUE, "", "", "", <<>>, "")),
          Str(Text(TRUE, "", "R1", "", <<>>, "")),
          [kind |-> "int", s |-> "7"], [kind |-> "bool"]}
  ELSE {Str(Word("R1"))}

\* a dict with the fields `names`, inserted in the order of their names or
\* in the reverse order
Dict(names, value, reverse) ==
  LET n == Cardinality(names)
      at(k) == CHOOSE f \in names :
                 Cardinality({g \in names : Rank(g) <= Rank(f)}) =
                   IF reverse THEN n + 1 - k ELSE k
  IN [k \in 1..n |-> [field |-> at(k), value |-> value[at(k)]]]

Resumes ==
  {<<[field |-> "profileUrl", value |-> Str(u)]>> : u \in Urls}
  \cup
  UNION {{Dict(names, value, reverse) :
            value \in {v \in [names -> UNION {ValuesOf(f) : f \in names}] :
                         \A f \in names : v[f] \in ValuesOf(f)},
            reverse \in BOOLEAN} :
         names \in {s \in SUBSET {FieldOrder[i] : i \in DOMAIN FieldOrder} :
                     Cardinality(s) <= MaxFields}}

\* lines 298-305: one record of the page is formatted
process_task_format ==
  /\ formatted = Pending
  /\ formatted' = format_resume(rec)
  /\ UNCHANGED <<workervars, cdp, pool, rec, twin>>

\* derive_external_id is called again, on the same record or on the same
\* items inserted in the reverse order
derive_external_id_again ==
  /\ formatted # Pending /\ twin = NoTwin
  /\ \E reverse \in BOOLEAN :
       LET r == IF reverse THEN [i \in DOMAIN rec |-> rec[Len(rec) + 1 - i]]
                           ELSE rec
       IN twin' = [how |-> IF reverse THEN "reversed" ELSE "same",
                   field |-> "", id |-> derive_external_id(r)]
  /\ UNCHANGED <<workervars, cdp, pool, rec, formatted>>

\* derive_external_id on the record with the query parameters of its
\* profile URL in another order, or with a utm_ parameter added, or with
\* none left
derive_external_id_reordered ==
  /\ formatted # Pending /\ twin = NoTwin
  /\ \E i \in DOMAIN rec :
       /\ rec[i].field \in UrlFields /\ rec[i].value.kind = "str"
       /\ LET t == rec[i].value.text
              utm == [key |-> "utm_s", val |-> "1", eq |-> TRUE]
              Permuted ==
                {[j \in DOMAIN t.query |-> t.query[f[j]]] :
                   f \in {g \in [DOMAIN t.query -> DOMAIN t.query] :
                            \A j, k \in DOMAIN t.query : g[j] = g[k] => j = k}}
              Retagged ==
                {<<utm>> \o t.query, t.query \o <<utm>>,
                 SelectSeq(t.query, LAMBDA p : ~is_utm(p.key))}
          IN \E q \in Permuted \cup Retagged :
               twin' = [how |-> "reordered", field |-> rec[i].field,
                        id |-> derive_external_id(
                                 [rec EXCEPT ![i].value.text.query = q])]
  /\ UNCHANGED <<workervars, cdp, pool, rec, formatted>>

\* derive_external_id on a record whose field `name` holds the key derived
\* before
derive_external_id_of_key ==
  /\ formatted # Pending /\ twin = NoTwin
  /\ formatted.externalId.kind = "str"
  /\ \E name \in {"profileUrl", "resumeId", "perUserId", "externalId"} :
       twin' = [how |-> "rekeyed", field |-> name,
                id |-> derive_external_id(
                         <<[field |-> name, value |-> formatted.externalId]>>)]
  /\ UNCHANGED <<workervars, cdp, pool, rec, formatted>>

(* --------------------------- specification ----------------------------- *)
\* the worker before its first heartbeat
WorkerInit ==
  /\ pc = "start"
  /\ task = NoTask
  /\ args = WorkerArgs
  /\ socket = FALSE
  /\ pass = 0 /\ count = 0 /\ page = 0 /\ advances = 0
  /\ context_id = "none"
  /\ site = "init" /\ result = "none"
  /\ exc = NoExc /\ first = NoExc
  /\ stats = NoStats
  /\ analysis = NoAnalysis
  /\ job = NoJob
  /\ cancelled = FALSE
  /\ call = NoCall
  /\ hist = NoHist
  /\ epi = <<>>

\* CDPClient.__init__ on a freshly connected socket
ClientInit ==
  /\ client = NoClient
  /\ rpc = NoRpc
  /\ wire = NoWire
  /\ resolving = NoRes

\* every task pending, every worker about to claim
PoolInit ==
  /\ queue = [t \in Queued |-> [status |-> "pending", owner |-> 0]]
  /\ fleet = [w \in Fleet |-> Idle]
  /\ sent = NoSent

\* no record is being keyed
NoKeys ==
  /\ rec = <<>>
  /\ formatted = Pending
  /\ twin = NoTwin

Init == WorkerInit /\ ClientInit /\ PoolInit /\ NoKeys

worker ==
  \/ worker_loop_start
  \/ worker_loop_heartbeat
  \/ worker_loop_claim
  \/ worker_loop_claimed
  \/ worker_loop_poll_sleep
  \/ worker_loop_error
  \/ worker_loop_backoff
  \/ process_task_heartbeat
  \/ process_task_config
  \/ on_progress_update
  \/ on_progress_heartbeat
  \/ open_cdp_session_targets
  \/ open_cdp_session_connect
  \/ open_cdp_session_enable
  \/ open_cdp_session_resolve
  \/ open_cdp_session_navigate
  \/ open_cdp_session_status
  \/ process_task_url
  \/ execute_scrape_job_start
  \/ execute_scrape_job_extract
  \/ execute_scrape_job_next
  \/ process_task_first_status
  \/ process_task_navigate
  \/ process_task_retry_resolve
  \/ process_task_final_status
  \/ process_task_submit
  \/ process_task_search
  \/ process_task_dispatch
  \/ process_task_complete
  \/ process_task_done
  \/ process_task_cancelled
  \/ process_task_failed
  \/ process_task_failed_complete
  \/ process_task_failed_idle

Next == worker \/ queue_cancel

Spec == Init /\ [][Next]_vars

\* every awaited call returns or fails within its timeout, so the worker
\* always takes its next step
FairSpec == Spec /\ WF_vars(worker)

\* calls on one CDPClient, as eval_json, wait_for and open_cdp_session make
\* them one after the other
CallNext == CDPClient_call_send \/ CDPClient_call_recv

CallSpec == Init /\ [][CallNext]_vars

\* one resolve_accessor_context, on any registry the events can have left
ResolveInit ==
  /\ WorkerInit
  /\ PoolInit
  /\ NoKeys
  /\ client \in [next_id : {0}, contexts : Registries]
  /\ rpc = NoRpc
  /\ wire = NoWire
  /\ resolving = NoRes

ResolveNext ==
  resolve_accessor_context_default \/ resolve_accessor_context_probe

ResolveSpec == ResolveInit /\ [][ResolveNext]_vars

\* several worker processes and the queue service
PoolNext ==
  \/ \E w \in Fleet : fleet_claim(w)
  \/ \E w \in Fleet : fleet_config(w)
  \/ \E w \in Fleet : fleet_progress(w)
  \/ \E w \in Fleet : fleet_complete(w)
  \/ \E w \in Fleet : fleet_failed(w)
  \/ \E t \in Queued : queue_cancel_task(t)
  \/ \E t \in Queued : queue_retry(t)

PoolSpec == Init /\ [][PoolNext]_vars

\* derive_external_id on one record of a scraped page
KeyInit ==
  /\ WorkerInit /\ ClientInit /\ PoolInit
  /\ rec \in Resumes
  /\ formatted = Pending
  /\ twin = NoTwin

KeyNext ==
  \/ process_task_format
  \/ derive_external_id_again
  \/ derive_external_id_reordered
  \/ derive_external_id_of_key

KeySpec == KeyInit /\ [][KeyNext]_vars


(* one execute_scrape_job, as process_task (worker.py:222) or run() of     *)
(* refresh_sample.py (line 537) call it: any limit and max_pages, with or  *)
(* without allow_empty, with on_progress as the callback or with none      *)
\* --limit and --max-pages of run() are any integers; 0 stands for the ones
\* that the first iteration already reaches
JobTasks == [id : {1}, limit : LimitVals, maxPages : {0} \cup MaxPagesVals]

\* the session is open and execute_scrape_job is entered
JobInit ==
  /\ pc = "sj_wait"
  /\ task \in JobTasks
  /\ args \in [allow_empty : BOOLEAN, progress_callback : BOOLEAN]
  /\ socket = TRUE
  /\ pass = 1 /\ count = 0 /\ page = 0 /\ advances = 0
  /\ context_id = "open"
  /\ site = "init" /\ result = "none"
  /\ exc = NoExc /\ first = NoExc
  /\ stats = NoStats
  /\ analysis = NoAnalysis
  /\ job = NoJob
  /\ cancelled = FALSE
  /\ call = NoCall
  /\ hist = NoHist
  /\ epi = <<>>
  /\ ClientInit /\ PoolInit /\ NoKeys

JobNext ==
  \/ execute_scrape_job_start
  \/ execute_scrape_job_extract
  \/ execute_scrape_job_next
  \/ on_progress_update
  \/ on_progress_heartbeat
  \/ queue_cancel

JobSpec == JobInit /\ [][JobNext]_vars

\* every awaited evaluation and callback returns or fails: a step of the job
\* that can be taken is taken
FairJobSpec == JobSpec /\ WF_vars(JobNext)


(* ------------------------------- claims -------------------------------- *)
IsHb(e, state) == e.op = "heartbeat" /\ e.st = state

\* the lastError a heartbeat carries for a message of `len` characters
Carried(len) == IF len > 0 THEN Min(len, LastErrorCap) ELSE NoError

IdleHb == HbEv("idle", 0, NoError, "sent")

\* the last claim returned a task
PrevTask == task # NoTask /\ (epi = <<>> \/ epi[1].op # "claim")

\* the claimed task was reported completed
Finished ==
  /\ epi # <<>>
  /\ epi[1].op = "complete" /\ epi[1].st = "completed" /\ epi[1].res = "ok"

OpenPcs == {"open_targets", "open_connect", "open_enable", "open_resolve1",
            "open_navigate", "open_resolve2", "open_resolve3", "open_status"}

C2_FailureReported ==
  (pc = "claim" /\ PrevTask /\ first.kind = "error") =>
    \E i, j, k \in DOMAIN epi :
      /\ i < j /\ j < k
      /\ epi[i] = HbEv("error", task.id, Carried(first.len), "sent")
      /\ epi[j].op = "complete" /\ epi[j].st = "failed" /\ epi[j].a = first.len
      /\ IsHb(epi[k], "idle")

\* C3: a task that ends without exception was reported by exactly one
\* complete(status="completed"), issued after the scrape returned and, when
\* records were extracted, after the one submitResumes call succeeded (none
\* is issued for zero records); an idle heartbeat follows it.
C3_CompletedOnce ==
  /\ (pc = "claim" /\ PrevTask /\ first = NoExc) => Finished
  /\ Finished /\ first = NoExc =>
       /\ hist.done = 1 /\ hist.failed = 0
       /\ hist.returned >= 1
       /\ epi[1].a > 0 => hist.submits = 1 /\ hist.submitted = 1
       /\ epi[1].a = 0 => hist.submits = 0
       /\ Len(epi) >= 2 => epi[2] = IdleHb
       /\ \A i \in 2..Len(epi) : epi[i].op = "heartbeat"

C3_Witness ==
  pc = "claim" /\ Finished /\ first = NoExc /\ epi[1].a > 0 /\ hist.submitted = 1

\* the exception was caught by worker_loop
LoopErr == exc.by \in {"claim", "config", "complete_failed"}

\* C4: an exception that reaches worker_loop is followed by an error
\* heartbeat carrying the message, the backoff sleep and the idle heartbeat
\* of the next iteration, then claim; claim is attempted infinitely often.
C4_LoopErrorSequence ==
  (pc = "claim" /\ LoopErr) =>
    LET n == Len(epi)
    IN /\ n >= 4
       /\ epi[n - 3].res = "raise"
       /\ epi[n - 2] = HbEv("error", 0, Carried(exc.len), "sent")
       /\ epi[n - 1] = Ev("sleep", "backoff", Backoff, 0, 0, "done")
       /\ epi[n] = IdleHb

C4_LoopNeverStops == [](C4_LoopErrorSequence) /\ []<>(call.op = "claim")

C4_Witness == pc = "claim" /\ exc.by = "claim" /\ Len(epi) = 4

\* the processing of the claimed task has ended: completed reported,
\* cancellation observed, or failure reported (by complete(status="failed"),
\* or by the error heartbeat of worker_loop when process_task raised before
\* its try block)
Ended ==
  \/ Finished
  \/ hist.seen /\ first.kind = "cancellation"
  \/ hist.failed >= 1
  \/ first.by = "config" /\ \E i \in DOMAIN epi : IsHb(epi[i], "error")

\* C5: the worker has at most one active task: when it issues claim, the
\* processing of the task it claimed before has ended, its session is closed
\* and its locals are gone.
C5_OneTaskAtATime ==
  (pc = "claim" /\ PrevTask) => (Ended /\ ~socket /\ pass = 0)

C5_Witness == pc = "claim" /\ PrevTask /\ hist.opened = 1 /\ hist.failed = 1

\* C6: outside process_task, and in its except clauses, no socket is open:
\* complete(status="failed") and claim are issued with the socket closed.
C6_SocketReleased ==
  /\ pc \in {"pt_fail_hb", "pt_fail_complete", "pt_fail_idle_hb",
             "pt_cancel_hb", "loop_hb", "claim", "poll_sleep",
             "loop_error_hb", "backoff", "claimed_hb"} => ~socket
  /\ call.op = "complete" /\ call.st = "failed" => ~socket
  /\ call.op = "claim" => ~socket

C6_Witness == pc = "pt_fail_complete" /\ hist.opened = 1 /\ ~socket

\* the positions at which the worker sends a heartbeat, and where it goes on
HbPcs == {"start", "loop_hb", "claimed_hb", "pt_hb", "op_hb", "pt_done_hb",
          "pt_cancel_hb", "pt_fail_hb", "pt_fail_idle_hb", "loop_error_hb"}

HbNext ==
  CASE pc = "start" -> "loop_hb"
    [] pc = "loop_hb" -> "claim"
    [] pc = "claimed_hb" -> "pt_hb"
    [] pc = "pt_hb" -> "pt_config"
    [] pc = "op_hb" -> IF result = "cancelled" THEN "pt_cancel_hb"
                       ELSE IF site = "init" THEN "open_targets"
                       ELSE IF count >= task.limit \/ page >= max_pages
                         THEN IF count > 0 THEN "pt_submit"
                              ELSE IF pass = 1 THEN "pt_first_status"
                              ELSE "pt_final_status"
                       ELSE "sj_next"
    [] pc = "pt_done_hb" -> "loop_hb"
    [] pc = "pt_cancel_hb" -> "loop_hb"
    [] pc = "pt_fail_hb" -> "pt_fail_complete"
    [] pc = "pt_fail_idle_hb" -> "loop_hb"
    [] pc = "loop_error_hb" -> "backoff"
    [] OTHER -> "none"

\* C7: a heartbeat never raises into its caller: whether it succeeds or
\* fails, the worker goes on at the same place, with no new exception (only
\* the CancellationError of on_progress follows a heartbeat) and with the
\* same counts of queue calls.
C7_HeartbeatSwallowed ==
  [][(pc \in HbPcs /\ pc' # pc) =>
       /\ call'.op = "heartbeat"
       /\ pc' = HbNext
       /\ (pc = "op_hb" /\ result = "cancelled") \/ (exc' = exc /\ first' = first)
       /\ hist'.submits = hist.submits /\ hist'.done = hist.done
       /\ hist'.failed = hist.failed]_vars

C7_Witness == call.op = "heartbeat" /\ call.res = "fail" /\ pc = "sj_next"

\* C8: a browser session is opened for a task only after updateProgress with
\* current=0 and page=0 has returned without failure and without "cancelled".
C8_InitialProgressFirst ==
  (pc \in OpenPcs \/ socket \/ hist.opened > 0) => hist.init = "ok"

C8_Witness == socket /\ hist.init = "ok" /\ pc = "sj_extract"

\* C9: after the callback of page k (k >= 1) got "cancelled", no goToNextPage,
\* no extract, no other evaluation and no navigation is issued for the task.
C9_CancelStopsScrape ==
  (hist.seen /\ epi # <<>> /\ epi[1].b >= 1) =>
    /\ \A i \in 2..Len(epi) :
         epi[i].op \notin {"goToNextPage", "extract", "navigate", "eval",
                           "resolve"}
    /\ pc \in {"op_hb", "pt_cancel_hb", "loop_hb", "claim"}
    /\ ~socket \/ pc = "op_hb"

C9_Witness ==
  hist.seen /\ epi # <<>> /\ epi[1].b = 2 /\ pc = "claim" /\ hist.navs = 0

\* C10: from the moment the queue has marked the task cancelled, the worker
\* issues at most one goToNextPage and at most one extract for it.
C10_CancelLatency == hist.xs <= 1 /\ hist.ns <= 1

C10_Witness == hist.seen /\ hist.xs = 1 /\ hist.ns = 1

\* execute_scrape_job has returned and its records are not yet used
ReturnedPcs == {"pt_submit", "pt_first_status", "pt_final_status"}

\* C11: when goToNextPage answered true and the wait for the incremented
\* page number timed out, execute_scrape_job has stopped: it has returned
\* without raising, with no further extract or goToNextPage.
C11_TimeoutStops == job.late => pc \in ReturnedPcs

\* C12 as claimed: a task reported completed whose first pass found its
\* first page empty went through exactly one hard-navigation retry.
C12_FirstPageRetry ==
  (hist.done >= 1 /\ hist.empty1) => hist.navs = 1

\* C12 as amended: the retry follows a first pass that returned zero records
\* (not only an empty first page): such a task is reported completed only
\* after exactly one Page.navigate and a second full pass; no task is
\* retried twice, and none whose first pass returned records.
C12_EmptyPassRetry ==
  /\ hist.navs <= 1
  /\ hist.navs = 1 => hist.zero1 /\ hist.empty1
  /\ pass = 2 => hist.navs = 1
  /\ (hist.done >= 1 /\ hist.zero1) => hist.navs = 1 /\ hist.returned = 2
  /\ (hist.done >= 1 /\ ~hist.zero1) => hist.navs = 0 /\ hist.returned = 1

C12_Witness ==
  pc = "claim" /\ Finished /\ hist.zero1 /\ hist.navs = 1 /\ epi[1].a > 0

\* C13: one invocation of execute_scrape_job issues at most max_pages
\* goToNextPage evaluations.
C13_MaxPagesBound == job.gos <= max_pages

C13_Witness ==
  /\ pc \in ReturnedPcs /\ task.maxPages = 2 /\ page = 2 /\ job.gos = 1
  /\ count < limit

\* C14: with limit >= 1, no extract is issued once the count has reached
\* the limit: the count before the last page was appended is below it.
C14_LimitBound ==
  limit >= 1 =>
    /\ pc = "sj_extract" => count < limit
    /\ job.recs # <<>> => count - job.recs[Len(job.recs)] < limit

C14_Witness ==
  pc = "pt_submit" /\ limit >= 1 /\ count > limit /\ Len(job.recs) = 2

RECURSIVE SumTo(_, _)
SumTo(recs, i) == IF i = 0 THEN 0 ELSE recs[i] + SumTo(recs, i - 1)

\* C15: the progress callback is invoked once per extracted page, after the
\* page was appended and before the stop checks and goToNextPage, with the
\* cumulative count and the page number, the pages numbered 1, 2, 3, ...
C15_CallbackPerPage ==
  LET n == Len(job.recs)
  IN /\ Len(job.cbs) = IF pc = "op_update" /\ site = "scrape" THEN n - 1 ELSE n
     /\ \A i \in 1..Len(job.cbs) : job.cbs[i] = <<SumTo(job.recs, i), i>>
     /\ pc = "sj_next" => Len(job.cbs) = page /\ job.gos = page - 1
     /\ (pc \in {"op_update", "op_hb"} /\ site = "scrape") => n = page
     /\ pc = "sj_extract" => n = page - 1
     /\ (pc \in ReturnedPcs /\ job # NoJob) =>
          Len(job.cbs) = page /\ job.cbs[page] = <<count, page>>

\* pages of 1/1/0 records with limit 3 and maxPages 3: two records, two
\* goToNextPage calls, callbacks (1,1), (2,2), (2,3)
C15_Witness ==
  /\ pc = "pt_submit" /\ task.limit = 3 /\ task.maxPages = 3
  /\ job.recs = <<1, 1, 0>> /\ count = 2 /\ job.gos = 2
  /\ job.cbs = << <<1, 1>>, <<2, 2>>, <<2, 3>> >>

\* C16: a call returns only on the response frame that carries its own
\* request id and no error; no request id is used twice on the transport;
\* the deadline and an error response to the request end the call by
\* CDPError, and nothing else does.
C16_MatchingResponseOnly ==
  /\ ~wire.reused
  /\ rpc.request_id = client.next_id
  /\ rpc.state = "returned" =>
       /\ rpc.frame.kind = "response" /\ rpc.frame.id = rpc.request_id
       /\ ~rpc.frame.error
  /\ (rpc.state # "waiting" /\ rpc.frame.kind = "timeout") =>
       rpc.state = "raised" /\ rpc.error = "CDPError"
  /\ (rpc.frame.kind = "response" /\ rpc.frame.id = rpc.request_id
        /\ rpc.frame.error) =>
       rpc.state = "raised" /\ rpc.error = "CDPError"
  /\ rpc.error = "CDPError" =>
       \/ rpc.frame.kind = "timeout"
       \/ rpc.frame.kind = "response" /\ rpc.frame.id = rpc.request_id
            /\ rpc.frame.error

\* the second call read the late response to the first and returned its own
C16_Witness ==
  rpc.state = "returned" /\ rpc.request_id = 2 /\ 1 \in wire.lost

\* C17: a call that ends by an exception ends by CDPError, also when the
\* socket closed while it waited.
C17_ClosedIsCDPError == rpc.state = "raised" => rpc.error = "CDPError"

RECURSIVE ApplyEvents(_, _)
ApplyEvents(contexts, evs) ==
  IF evs = <<>> THEN contexts
  ELSE ApplyEvents(handle_event(contexts, Head(evs)), Tail(evs))

\* C18: the registry is the one the call started with, changed by the event
\* frames read so far in their order of arrival, so every event before the
\* matching response is applied when the call returns; an event frame never
\* ends a call.
C18_EventsApplied ==
  /\ client.contexts = ApplyEvents(rpc.before, rpc.events)
  /\ rpc.state = "returned" => rpc.frame.kind = "response"
  /\ rpc.frame.kind = "event" => rpc.state = "waiting"
  /\ rpc.state = "waiting" => rpc.read >= Len(rpc.events)

C18_Witness ==
  /\ rpc.state = "returned" /\ Len(rpc.events) = 2 /\ rpc.before = <<>>
  /\ rpc.events[1].method = "created" /\ rpc.events[2].method = "destroyed"
  /\ rpc.events[1].ctx.id = rpc.events[2].id
  /\ client.contexts = <<>>

\* C19: no response frame read by a call that waits for another id is lost.
C19_NoResponseDropped == wire.lost = {}

\* the contexts of a registry, the isolated ones, and the ones pick_contexts
\* falls back to
ContextsOf(reg) == { reg[i] : i \in DOMAIN reg }
IsolatedOf(reg) == { c \in ContextsOf(reg) : c.iso }
CandidatesOf(reg) ==
  IF IsolatedOf(reg) = {} THEN ContextsOf(reg) ELSE IsolatedOf(reg)

Missed(out) == out \in {"false", "CDPError"}

\* what resolve_accessor_context returned agrees with the probes it made,
\* `cands` being the contexts it had to probe
ResolveAgrees(cands) ==
  LET probes == resolving.probes
      n == Len(probes)
      ctx(i) == CHOOSE c \in ContextsOf(resolving.reg) : c.id = probes[i].id
      before(a, b) == rank_le(rank(a), rank(b)) /\ rank(a) # rank(b)
  IN resolving.state = "returned" =>
       /\ n >= 1 /\ probes[1].id = 0
       /\ probes[1].out = "true" =>
            resolving.found /\ resolving.id = 0 /\ n = 1
       /\ probes[1].out # "true" =>
            /\ \A i \in 2..n : \E c \in cands : c.id = probes[i].id
            /\ \A i, j \in 2..n :
                 i < j => probes[i].id # probes[j].id /\ ~before(ctx(j), ctx(i))
            /\ \A i \in 1..(n - 1) : Missed(probes[i].out)
            /\ resolving.found =>
                 /\ n >= 2 /\ probes[n].out = "true"
                 /\ resolving.id = probes[n].id
                 /\ \A c \in cands : before(c, ctx(n)) =>
                      \E i \in 2..(n - 1) : probes[i].id = c.id
            /\ ~resolving.found =>
                 /\ Missed(probes[n].out) /\ resolving.id = 0
                 /\ \A c \in cands : \E i \in 2..n : probes[i].id = c.id

\* C20 as claimed: the contexts probed after the default one are the
\* isolated contexts of the registry.
C20_IsolatedOnly == ResolveAgrees(IsolatedOf(resolving.reg))

\* C20 as amended: (True, none) on a successful default probe with no other
\* probe; else the isolated contexts, or all contexts when none is isolated,
\* are probed in rank order, the first success is returned, CDPError counts
\* as a miss, and (False, none) is returned only when every probe missed.
\* It raises only what is no CDPError (the ConnectionClosed of a closed socket).
C20_ResolveOrder ==
  /\ ResolveAgrees(CandidatesOf(resolving.reg))
  /\ resolving.state = "raised" =>
       resolving.probes[Len(resolving.probes)].out = "closed"
  /\ \A i \in DOMAIN resolving.probes :
       resolving.probes[i].out = "closed" =>
         resolving.state = "raised" /\ i = Len(resolving.probes)

\* the context registered first ranks second, the probe of the other one
\* failed with CDPError, and the first one was returned
C20_Witness ==
  /\ resolving.state = "returned" /\ resolving.found
  /\ Len(resolving.probes) = 3 /\ resolving.probes[2].out = "CDPError"
  /\ Len(resolving.reg) = 2 /\ resolving.reg[1].id = resolving.id
  /\ resolving.reg[1].name = 1 /\ resolving.reg[2].name = 2

\* the accessor-not-found error left open_cdp_session
AccessorNotFound ==
  /\ epi # <<>> /\ epi[1].op = "resolve" /\ epi[1].res = "missing"
  /\ epi[1].st \in {"open_resolve1", "open_resolve2", "open_resolve3"}

\* C21: open_cdp_session raises the accessor-not-found CDPError only after
\* three failed resolutions, the second of them after the Page.navigate to
\* the search URL and its readiness wait; an attempt that finds the accessor
\* is followed by no further resolution or navigation of the opening.
C21_ThreeAttempts ==
  /\ [](/\ AccessorNotFound =>
            /\ hist.tries = 3 /\ hist.onavs = 1
            /\ first.kind = "error" /\ first.by = "cdp"
        /\ pc = "open_resolve2" =>
            /\ hist.tries = 1 /\ hist.onavs = 1
            /\ call.op = "navigate" /\ call.res = "ok"
        /\ pc = "open_resolve3" => hist.tries = 2 /\ hist.onavs = 1
        /\ pc = "open_status" =>
            /\ call.op = "resolve" /\ call.res = "found"
            /\ hist.tries \in 1..3
            /\ hist.onavs = IF hist.tries = 1 THEN 0 ELSE 1)
  /\ [][(pc = "open_status" /\ pc' # pc) =>
          /\ pc' \notin {"open_resolve1", "open_resolve2", "open_resolve3",
                         "open_navigate"}
          /\ call'.op \notin {"resolve", "navigate"}]_vars

C21_Witness ==
  /\ AccessorNotFound /\ hist.tries = 3 /\ hist.onavs = 1
  /\ pc = "pt_fail_hb"

\* C22: the session is yielded to process_task only after the readiness
\* probe has answered true; a probe still false when its timeout expires
\* makes open_cdp_session fail with a CDPError instead.
C22_ReadyBeforeYield ==
  /\ pc = "pt_url" => call.op = "ready" /\ call.res = "ready"
  /\ (call.op = "ready" /\ call.res = "timeout") =>
       pc = "pt_fail_hb" /\ exc.kind = "error" /\ exc.by = "cdp"

\* C24: heartbeat states follow idle -> processing -> (idle | error -> idle):
\* every claim is preceded by the idle heartbeat of its iteration; a
\* processing heartbeat carries the id of the claimed task and is sent only
\* while that task is in process_task, before any complete; once an error
\* heartbeat is sent no processing heartbeat follows until the idle heartbeat
\* that precedes the next claim.
C24_HeartbeatStates ==
  /\ pc = "claim" => IsHb(call, "idle") /\ call.a = 0
  /\ IsHb(call, "processing") =>
       /\ task # NoTask /\ call.a = task.id
       /\ (Running \/ pc = "pt_cancel_hb")
       /\ hist.done = 0 /\ hist.failed = 0
  /\ \A i, j \in DOMAIN epi :
       (i < j /\ IsHb(epi[i], "error")) => ~IsHb(epi[j], "processing")
  /\ \A i \in DOMAIN epi :
       (IsHb(epi[i], "error") /\ pc \in {"claim", "claimed_hb"}) =>
         IsHb(epi[Len(epi)], "idle")

C24_Witness ==
  /\ pc = "claim" /\ PrevTask
  /\ \E i \in DOMAIN epi : IsHb(epi[i], "error") /\ epi[i].a = task.id
  /\ IsHb(call, "idle")

\* C25: a failure of resumes:search or of analysis_tasks:dispatch raises
\* nothing in process_task: the next call is complete(status="completed")
\* with autoAnalyzed = 0 and without autoAnalysisTaskId; the dispatch is
\* issued only with auto-analysis requested, a non-empty keyword and at
\* least one candidate id returned by the search.
C25_AnalysisFailureTolerated ==
  /\ [](/\ (call.op \in {"search", "dispatch"} /\ call.res = "raise") =>
            /\ pc = "pt_complete" /\ hist.afail
            /\ first = NoExc /\ hist.failed = 0
            /\ analysis.n = 0 /\ ~analysis.id
        /\ (hist.afail /\ pc = "pt_done_hb") =>
            /\ epi[1].op = "complete" /\ epi[1].st = "completed"
            /\ epi[1].c = 0 /\ ~analysis.id
        /\ pc = "pt_dispatch" =>
            /\ analysis.auto /\ analysis.keyword # ""
            /\ call.op = "search" /\ call.res = "ok" /\ call.a >= 1
        /\ call.op = "dispatch" => call.a >= 1 /\ analysis.auto
                                   /\ analysis.keyword # "")
  /\ [][(pc = "pt_complete" /\ pc' # pc) =>
          /\ call'.op = "complete" /\ call'.st = "completed"
          /\ call'.c = analysis.n]_vars

C25_Witness ==
  /\ hist.afail /\ pc = "pt_done_hb" /\ Finished
  /\ epi[1].c = 0 /\ ~analysis.id /\ analysis.auto

\* claim returned null in this iteration
NullClaim == epi # <<>> /\ epi[1] = Ev("claim", "", 0, 0, 0, "null")

\* C26: after a null claim the worker only sleeps the poll interval and then
\* sends the idle heartbeat of the next iteration and claims again: no
\* processing or error heartbeat, no updateProgress, submitResumes or
\* complete, and no exception.
C26_NullClaimIdle ==
  NullClaim =>
    LET after == <<epi[1], Ev("sleep", "poll", PollInterval, 0, 0, "done"),
                   IdleHb>>
    IN /\ Len(epi) <= 3
       /\ epi = SubSeq(after, 1, Len(epi))
       /\ pc = CASE Len(epi) = 1 -> "poll_sleep"
                 [] Len(epi) = 2 -> "loop_hb"
                 [] OTHER -> "claim"
       /\ task = NoTask /\ hist = NoHist
       /\ exc = NoExc /\ first = NoExc /\ ~socket

C26_Witness == NullClaim /\ pc = "claim" /\ Len(epi) = 3 /\ IsHb(call, "idle")

\* worker `w` is in process_task for task `t`
Processing(w, t) ==
  fleet[w].pc \in {"claimed", "processing", "failing"} /\ fleet[w].task = t

\* C23: with several workers on a queue whose claim is atomic, no task is in
\* process_task of two workers at once, and every updateProgress and complete
\* call names the task that the last claim of the calling worker returned
\* and whose process_task has not ended, a task the queue assigned to it.
C23_ExclusiveTasks ==
  /\ \A t \in Queued : Cardinality({w \in Fleet : Processing(w, t)}) <= 1
  /\ \A w \in Fleet :
       fleet[w].pc \in {"claimed", "processing", "failing"} =>
         /\ fleet[w].task # 0 /\ fleet[w].own = fleet[w].task
         /\ queue[fleet[w].task].owner = w
  /\ sent.op \in {"updateProgress", "complete"} =>
       /\ sent.task # 0 /\ sent.task = sent.own
       /\ sent.owner = sent.worker

C23_Witness ==
  /\ Processing(1, 1) /\ Processing(2, 2)
  /\ sent.op = "updateProgress" /\ sent.worker = 2 /\ sent.task = 2

\* the steps of the chain, in their order, and the step that gives the key
Steps(resume) ==
  <<IF profile_url(resume) = None THEN None
      ELSE normalize_profile_url(profile_url(resume).text),
    IF resume_id(resume) = None THEN None
      ELSE normalize_token(resume_id(resume).text),
    IF per_user_id(resume) = None THEN None
      ELSE normalize_token(per_user_id(resume).text),
    IF external_id(resume) = None THEN None
      ELSE normalize_token(external_id(resume).text),
    content_hash(resume)>>
FirstUsable(resume) ==
  CHOOSE n \in 1..5 :
    Steps(resume)[n] # None /\ \A m \in 1..(n - 1) : Steps(resume)[m] = None

\* C27: for a record with a profile URL, derive_external_id gives the same
\* key when the query parameters of the URL are reordered and when utm_
\* parameters are added to it or removed from it.
C27_ReorderInvariant ==
  (twin.how = "reordered" /\ Steps(rec)[1].kind = "str") =>
    twin.id = formatted.externalId

\* C28: derive_external_id never fails and returns the first usable step of
\* the chain profile URL, resume id, per-user id, external id, digest; an
\* empty value and a no-op href are passed over.
C28_FirstUsableStep ==
  formatted # Pending =>
    /\ formatted.externalId # Raised
    /\ formatted.externalId.kind \in {"str", "md5"}
    /\ formatted.externalId = Steps(rec)[FirstUsable(rec)]
    /\ \A i \in DOMAIN rec :
         (rec[i].field \in UrlFields /\ rec[i].value.kind = "str"
          /\ lower(strip(rec[i].value.text)) \in NoOpHrefs \cup {NoText}
          /\ Len(rec) = 1) => formatted.externalId.kind = "md5"

\* the field of the step that gave the key
ProducedBy(resume) ==
  <<"profileUrl", "resumeId", "perUserId", "externalId", "">>[
    FirstUsable(resume)]

\* C29: normalization is idempotent: a record whose identifying field holds
\* the key derived before derives that key again.
C29_Idempotent ==
  (twin.how = "rekeyed" /\ twin.field = ProducedBy(rec)) =>
    twin.id = formatted.externalId

\* the record has none of the identifying fields
Lacking(resume) ==
  \A i \in DOMAIN resume : resume[i].field \notin UrlFields \cup IdFields

\* C30: for a record with no profile URL, resume id, per-user id or external
\* id, derive_external_id is the digest of the JSON text with sorted keys:
\* the formatted record's externalId equals its hash, and a further call on
\* the same items, in whatever order they were inserted, gives the same key.
C30_DigestFallback ==
  (formatted # Pending /\ Lacking(rec)) =>
    /\ formatted.externalId = content_hash(rec)
    /\ formatted.externalId = formatted.hash
    /\ twin.how \in {"same", "reversed"} =>
         twin.id = formatted.externalId

C30_Witness ==
  /\ formatted # Pending /\ Lacking(rec)
  /\ Len(rec) = 2 /\ rec[1].field = "name" /\ rec[2].field = "age"
  /\ twin.how = "reversed"
  /\ twin.id = formatted.hash

(* C31: the statistics of a task are the answer of submitResumes, field by *)
(* field; a field the answer lacks is 0, except input and submitted, which *)
(* are the number of records sent; with no record extracted nothing is     *)
(* submitted and every field is 0; complete(status="completed") carries    *)
(* `submitted` as the server gave it (or as defaulted), never recounted.   *)
\* the value of field f the worker has to hold after the answers in `resps`
\* (none, or the statistics the one answer of submitResumes held) to `n`
\* records
Defaulted(resps, f, n) ==
  IF resps = <<>> THEN 0
  ELSE IF f \in DOMAIN resps[1] THEN resps[1][f]
  ELSE IF f \in {"input", "submitted"} THEN n
  ELSE 0

C31_StatsDefaults ==
  /\ [](pc \in {"pt_search", "pt_dispatch", "pt_complete"} =>
          /\ (hist.resp = <<>>) <=> (count = 0)
          /\ \A f \in StatFields : stats[f] = Defaulted(hist.resp, f, count))
  /\ [][pc = "pt_complete" /\ pc' # pc =>
          /\ call'.op = "complete" /\ call'.st = "completed"
          /\ call'.a = count
          /\ call'.b = Defaulted(hist.resp, "submitted", count)]_vars

\* a task completed after an answer that held some of the fields only
C31_Witness ==
  /\ pc = "pt_done_hb" /\ call.op = "complete" /\ call.res = "ok"
  /\ count > 0 /\ call.b = count /\ stats.input = count
  /\ stats.deduped = count + 1 /\ stats.inserted = 0
  /\ stats.deduped = count + 1 /\ stats.inserted = 0

\* the evaluations process_task and execute_scrape_job send to a context
Evaluations == {"eval", "extract", "goToNextPage"}

\* the accessor was not found by the resolution that follows the retry's
\* navigation
RetryMiss ==
  /\ epi # <<>> /\ epi[1].op = "resolve" /\ epi[1].res = "missing"
  /\ epi[1].st = "pt_retry_resolve"

(* C32: the hard-navigation retry happens at most once per task and only   *)
(* after a first pass that returned no record; Page.navigate with its      *)
(* readiness wait is followed by a fresh resolution, and that by a second  *)
(* pass that starts at page 1 with nothing collected; every evaluation     *)
(* after the navigation is sent to the context resolved again, every one   *)
(* before it to the context of the opening; when the accessor is not found *)
(* after the navigation no second pass runs and the task is reported with  *)
(* complete(status="failed").                                              *)
C32_RetryOnce ==
  /\ [](/\ hist.navs <= 1
        /\ hist.navs = 1 => hist.zero1 /\ hist.returned >= 1
        /\ pass = 2 => hist.navs = 1
        /\ call.op \in Evaluations =>
             call.ctx = IF hist.navs = 1 THEN "retry" ELSE "open"
        /\ RetryMiss =>
             /\ hist.navs = 1 /\ hist.returned = 1 /\ pass = 0
             /\ hist.done = 0 /\ hist.submits = 0
             /\ first.kind = "error" /\ first.by = "cdp"
             /\ \A i \in 2..Len(epi) :
                  /\ epi[i].op \in {"heartbeat", "complete", "sleep"}
                  /\ epi[i].op = "complete" => epi[i].st = "failed"
             /\ pc = "claim" =>
                  \E j \in DOMAIN epi :
                    /\ epi[j].op = "complete" /\ epi[j].st = "failed"
                    /\ epi[j].a = first.len)
  /\ [][/\ (pc = "pt_navigate" /\ pc' # pc) =>
             /\ pass = 1 /\ count = 0
             /\ call'.op = "navigate"
             /\ pc' \in {"pt_retry_resolve", "pt_fail_hb"}
        /\ (pc = "pt_retry_resolve" /\ pc' # pc) =>
             /\ call.op = "navigate" /\ call.res = "ok"
             /\ call'.op = "resolve"
             /\ \/ call'.res = "found" /\ pc' = "sj_wait" /\ pass' = 2
                \/ call'.res = "missing" /\ pc' = "pt_fail_hb" /\ pass' = 0
        /\ (pass' = 2 /\ pass # 2) => pc = "pt_retry_resolve"
        /\ (pass = 2 /\ pc = "sj_wait" /\ pc' = "sj_extract") =>
             page' = 1 /\ count' = 0 /\ job' = NoJob]_vars

\* the second pass has extracted records in the context resolved again
C32_Witness ==
  /\ pass = 2 /\ hist.navs = 1 /\ hist.zero1
  /\ call.op = "extract" /\ call.ctx = "retry" /\ call.res = "ok"
  /\ page = 2 /\ count > 0

\* the registry as the mapping it is: context id -> context
AsMap(contexts) ==
  [i \in { contexts[k].id : k \in DOMAIN contexts } |->
     contexts[CHOOSE k \in DOMAIN contexts : contexts[k].id = i]]

\* the mapping after the event frames `evs`, in their order
RECURSIVE Announced(_, _)
Announced(map, evs) ==
  IF evs = <<>> THEN map
  ELSE LET e == Head(evs)
           next ==
             CASE e.method = "created" ->
                    [i \in DOMAIN map \cup {e.ctx.id} |->
                       IF i = e.ctx.id THEN e.ctx ELSE map[i]]
               [] e.method = "destroyed" ->
                    [i \in DOMAIN map \ {e.id} |-> map[i]]
               [] e.method = "cleared" -> [i \in {} |-> NoCtx]
               [] OTHER -> map
       IN Announced(next, Tail(evs))

(* C33: the registry holds one entry per context id, and is the registry   *)
(* the call started with after the event frames read so far, in order of   *)
(* arrival: created sets the entry of context.id, destroyed removes the    *)
(* entry of executionContextId and no other, cleared empties it; a frame   *)
(* that is none of the three (another event, a response, a timeout) leaves *)
(* it as it is.                                                            *)
C33_RegistryFollowsEvents ==
  /\ [](/\ \A i, j \in DOMAIN client.contexts :
             i # j => client.contexts[i].id # client.contexts[j].id
        /\ AsMap(client.contexts) = Announced(AsMap(rpc.before), rpc.events))
  /\ [][client'.contexts # client.contexts =>
          /\ rpc'.frame.kind = "event"
          /\ rpc'.frame.method \in {"created", "destroyed", "cleared"}
          /\ rpc'.events = Append(rpc.events, rpc'.frame)]_vars

\* a second call has read a created frame for a known id and a destroyed
\* frame for another one
C33_Witness ==
  /\ Len(rpc.before) = 2 /\ Len(rpc.events) = 2
  /\ rpc.events[1].method = "created"
  /\ rpc.events[1].ctx.id = rpc.before[1].id
  /\ rpc.events[1].ctx # rpc.before[1]
  /\ rpc.events[2].method = "destroyed"
  /\ rpc.events[2].id = rpc.before[2].id
  /\ client.contexts = <<rpc.events[1].ctx>>

\* where execute_scrape_job goes on after the stop checks with `total`
\* records collected on the current page: returned to its caller (with or
\* without records), or at goToNextPage
Checked(total) ==
  IF total >= task.limit \/ page >= task.maxPages
    THEN IF total > 0 THEN "pt_submit" ELSE "pt_first_status"
    ELSE "sj_next"

(* C34: an extract() answer that is no list raises the extraction error    *)
(* when allow_empty is false and nothing has been collected; in every      *)
(* other case the page counts as empty: nothing is added, and the job goes *)
(* on with the progress callback, called with the unchanged count and the  *)
(* current page, or without a callback with the stop checks; the stop      *)
(* checks follow the callback.                                             *)
C34_NonListPage ==
  [][/\ (pc = "sj_extract" /\ pc' # pc /\ call'.op = "extract"
           /\ call'.a = Absent) =>
          IF ~args.allow_empty /\ count = 0
            THEN /\ call'.res = "raise"
                 /\ pc' = "pt_fail_hb"
                 /\ exc'.kind = "error" /\ exc'.by = "cdp"
            ELSE /\ call'.res = "ok"
                 /\ count' = count /\ page' = page
                 /\ job'.recs = Append(job.recs, 0)
                 /\ pc' = IF args.progress_callback THEN "op_update"
                                                    ELSE Checked(count)
     /\ (pc = "op_update" /\ pc' = "op_hb" /\ call.op = "extract"
           /\ call.a = Absent) =>
          /\ call'.op = "updateProgress"
          /\ call'.a = count /\ call'.b = page
     /\ (pc = "op_hb" /\ pc' # pc /\ result # "cancelled") =>
          pc' = Checked(count)]_vars

\* a page that is no list was taken as empty, by a job without allow_empty
\* that had collected records; the callback is next
C34_Witness ==
  /\ ~args.allow_empty /\ args.progress_callback
  /\ call.op = "extract" /\ call.a = Absent /\ call.res = "ok"
  /\ job.recs = <<count, 0>> /\ count > 0 /\ page = 2
  /\ pc = "op_update"

(* C35: when goToNextPage() reports no next page, execute_scrape_job       *)
(* returns at once what it has accumulated: the count is the sum of the    *)
(* pages extracted, and that evaluation stays the job's last call, with no *)
(* extract, callback or goToNextPage after it.                             *)
C35_NoNextPageStops ==
  /\ []((call.op = "goToNextPage" /\ call.res = "false") =>
          /\ pc \in {"pt_submit", "pt_first_status"}
          /\ pc = "pt_submit" <=> count > 0
          /\ hist.returned = 1
          /\ count = SumTo(job.recs, Len(job.recs))
          /\ job.gos = Len(job.recs)
          /\ args.progress_callback => Len(job.cbs) = Len(job.recs))
  /\ [][(pc = "sj_next" /\ pc' # pc /\ call'.res = "false") =>
          /\ call'.op = "goToNextPage"
          /\ count' = count /\ page' = page
          /\ job'.recs = job.recs /\ job'.cbs = job.cbs
          /\ job'.gos = job.gos + 1]_vars

\* the second page had no successor: the job returned the records of both
C35_Witness ==
  /\ call.op = "goToNextPage" /\ call.res = "false"
  /\ pc = "pt_submit" /\ page = 2 /\ Len(job.recs) = 2 /\ job.recs[2] > 0
  /\ count = job.recs[1] + job.recs[2] /\ count < task.limit
  /\ task.maxPages > 2

\* execute_scrape_job has ended: returned to its caller, or left by an
\* exception
JobEnded == pc \in {"pt_submit", "pt_first_status", "pt_fail_hb", "pt_cancel_hb"}

(* C36: every execute_scrape_job ends, its evaluations and its callback    *)
(* returning or failing: the page loop is entered at page 1, each further  *)
(* iteration raises the page by one, and no iteration starts beyond        *)
(* max(1, max_pages), so at most that many pages are extracted.            *)
C36_JobTerminates ==
  /\ <>[]JobEnded
  /\ [](/\ page <= Max(1, task.maxPages)
        /\ Len(job.recs) <= Max(1, task.maxPages)
        /\ job.gos < Max(1, task.maxPages)
        /\ pc \in {"sj_extract", "op_update", "op_hb", "sj_next"} =>
             Len(job.recs) \in {page - 1, page})
  /\ [][(pc' = "sj_extract" /\ pc # pc') =>
          /\ page' = page + 1
          /\ pc \in {"sj_wait", "sj_next"}
          /\ pc = "sj_next" => page < task.maxPages /\ count < task.limit]_vars

\* with max_pages 0 the one iteration has run and the job has returned
C36_Witness ==
  /\ task.maxPages = 0 /\ pc = "pt_submit"
  /\ page = 1 /\ Len(job.recs) = 1 /\ count < task.limit /\ job.gos = 0

(* C37 as claimed: once the queue has marked the task cancelled and no     *)
(* submitResumes has been sent for it, the worker sends neither            *)
(* submitResumes nor complete(status="completed").                         *)
C37_CancelBeforeSubmit ==
  [][(cancelled /\ hist.submits = 0 /\ call' # call) =>
        /\ call'.op # "submitResumes"
        /\ ~(call'.op = "complete" /\ call'.st = "completed")]_vars

(* C37 as amended: a mark is noticed by the next updateProgress call and   *)
(* by nothing else.  An updateProgress issued after the mark is answered   *)
(* "cancelled" or fails, and a task that got that answer, or that was      *)
(* marked before one of its extract evaluations, is never submitted and    *)
(* never reported completed; a task that is submitted or reported          *)
(* completed although marked was marked after its last updateProgress.     *)
C37_CancelSeenAtNextProgress ==
  /\ []((hist.seen \/ (cancelled /\ hist.xs > 0)) =>
           hist.submits = 0 /\ hist.done = 0)
  /\ [][(cancelled /\ pc = "op_update" /\ pc' # pc) =>
          /\ call'.op = "updateProgress"
          /\ call'.res \in {"cancelled", "raise"}
          /\ pc' \in {"op_hb", "pt_fail_hb"}
          /\ hist'.submits = 0 /\ hist'.done = 0]_vars
  /\ [][(cancelled /\ call' # call
           /\ (call'.op = "submitResumes"
                 \/ (call'.op = "complete" /\ call'.st = "completed"))) =>
          /\ ~hist.seen /\ hist.xs = 0
          /\ pc \in {"pt_submit", "pt_complete"}]_vars

\* a task marked cancelled while its second page was being fetched: the
\* callback of that page got the answer, and the task ended with nothing
\* submitted and no complete call
C37_Witness ==
  /\ pc = "claim" /\ PrevTask /\ cancelled /\ hist.seen
  /\ hist.xs = 1 /\ hist.ns = 1
  /\ hist.submits = 0 /\ hist.done = 0 /\ hist.failed = 0

\* the complete calls issued for the claimed task so far, in order
Completes == SelectSeq(epi, LAMBDA e : e.op = "complete")

(* C38: once complete(status="completed") has returned for the task, the   *)
(* worker issues no complete(status="failed") for it: the only step left   *)
(* is the idle heartbeat, whose failure is swallowed.  A task has at most  *)
(* one complete call of each kind, the second one only after the first     *)
(* one raised, so at most one of them succeeds.                            *)
C38_OneCompleteSucceeds ==
  /\ [](/\ hist.done <= 1 /\ hist.failed <= 1
        /\ Len(Completes) = hist.done + hist.failed
        /\ Cardinality({i \in DOMAIN Completes :
                          Completes[i].res = "ok"}) <= 1
        /\ (Finished => hist.failed = 0 /\ Len(Completes) = 1)
        /\ (Len(Completes) = 2 =>
              /\ Completes[1].st = "completed" /\ Completes[1].res = "raise"
              /\ Completes[2].st = "failed"))
  /\ [][(pc = "pt_fail_complete" /\ pc' # pc) =>
          /\ ~Finished
          /\ call'.op = "complete" /\ call'.st = "failed"]_vars

\* complete(completed) has returned and the idle heartbeat after it failed:
\* the task is over with its one complete call
C38_Witness ==
  /\ pc = "loop_hb" /\ PrevTask /\ Finished
  /\ call = HbEv("idle", 0, NoError, "fail")
  /\ Len(epi) = 2 /\ hist.done = 1 /\ hist.failed = 0

\* the (count, page) of the task's last progress report: the last callback
\* of the running pass, or the last report before it
LastReport ==
  IF job.cbs # <<>> THEN job.cbs[Len(job.cbs)] ELSE hist.prev

(* C39: every updateProgress call of a task carries a `current` that is    *)
(* not below the one of the call before it, and a `total` = max(limit,     *)
(* current) >= current.  The retry pass counts from 0 again, but it is     *)
(* entered only after a first pass whose reports all carried 0.            *)
C39_CurrentNeverDecreases ==
  /\ []((pass = 2 /\ pc \in {"sj_extract", "op_update", "op_hb"}
           /\ job.cbs = <<>>) => hist.prev[1] = 0)
  /\ [][(pc = "op_update" /\ pc' # pc) =>
          /\ call'.op = "updateProgress"
          /\ call'.a = count
          /\ call'.a >= LastReport[1]
          /\ call'.a <= call'.c
          /\ call'.c = Max(task.limit, call'.a)]_vars

\* the first report of the retry pass, after a first pass of two empty
\* pages: two records against a limit of one, reported with total 2
C39_Witness ==
  /\ pc = "op_hb" /\ pass = 2 /\ task.limit = 1
  /\ hist.prev = <<0, 2>> /\ job.cbs = << <<2, 1>> >>
  /\ call.op = "updateProgress" /\ call.a = 2 /\ call.c = 2

(* C40 as claimed: every updateProgress call of a task carries a `page`    *)
(* that is not below the one of the call before it, 0 in the initial       *)
(* report.                                                                 *)
C40_PageNeverDecreases ==
  [][(pc = "op_update" /\ pc' # pc) =>
        /\ call'.op = "updateProgress"
        /\ (site = "init" => call'.b = 0)
        /\ call'.b >= LastReport[2]]_vars

(* C40 as amended: the initial report carries page 0 and the k-th callback *)
(* of a pass of execute_scrape_job carries page k, so the page rises by    *)
(* one within a pass; the retry pass starts again at page 1, which is the  *)
(* one place where the page of a report can be below the one before it.    *)
C40_PageFollowsPass ==
  /\ [][(pc = "op_update" /\ pc' # pc) =>
          /\ call'.op = "updateProgress"
          /\ call'.b = IF site = "init" THEN 0 ELSE Len(job.cbs) + 1
          /\ (job.cbs # <<>> => call'.b = LastReport[2] + 1)]_vars
  /\ [][(pc = "op_update" /\ pc' # pc /\ call'.b < LastReport[2]) =>
          /\ pass = 2 /\ job.cbs = <<>> /\ call'.b = 1
          /\ hist.zero1 /\ LastReport[1] = 0]_vars

\* the first pass reported two empty pages; the first report of the retry
\* pass carries page 1
C40_Witness ==
  /\ pc = "op_hb" /\ pass = 2 /\ site = "scrape"
  /\ hist.prev[2] = 2 /\ hist.zero1
  /\ call.op = "updateProgress" /\ call.b = 1 /\ call.res = "ok"
  /\ Len(job.cbs) = 1

==========================================================================
